---------------------------- MODULE Spec2Model ----------------------------
(***************************************************************************)
(* DotDash: verification model of the rule validation, the rule files,     *)
(* the rule store with its editor and import dialog, the pause store, the  *)
(* expansion engine, the command suggestions, the permission flow, the    *)
(* tray store, the persistence of the rule list and the start of the       *)
(* engine after onboarding.                                                *)
(*                                                                         *)
(* A string is a sequence of one-character strings; the character U+0000   *)
(* is written "NUL".  A rule is a record                                   *)
(*   [id, command, replacementText, createdAt, updatedAt].                 *)
(***************************************************************************)
EXTENDS Integers, Sequences, FiniteSets, TLC

VARIABLES
  \* validateRule: its arguments and its result
  vCommand, vText, vExisting, vSelfId, vErrors, vPhase,
  \* lib/storage.ts: the text read, the rules of the store, each function's result
  pText, pExisting, pStorage, pDisk, pParse, pParseC,
  \* state/shortcuts-store.tsx: the rule list, the id and time sources, the
  \* number of imports so far
  rules, nextId, clock, importCount,
  \* ShortcutsView and EditorCard: selection, editor instance and its state,
  \* the armed debounce timer, the pending 50 ms timers
  selectedId, edKey, edCommand, edText, edErrors, edConflict, edDebounce,
  edTimers,
  \* SettingsView and ImportConflictDialog
  settingsOpen, importConflicts, pendingImportRules, showConflictDialog,
  resolutions,
  \* Pause Coordinator: the two pause flags and the permission state
  pausedByUser, pausedBySecureInput, permissionGranted,
  \* Keystroke Monitor: the secure-input context it has detected
  secureInput,
  \* state/pause-toggle-store.tsx: the commands on their way to the backend,
  \* the responses on their way back, the pause state shown, and the
  \* values last asked for by the user and by the secure-input signal
  calls, responses, isPaused, pauseReason, canResume, lastUser, lastSecure,
  \* expansion engine: match buffer, synthetic-input guard, synthesized
  \* events not yet observed, the event just observed, expansions so far
  buffer, guard, synthQueue, lastEvent, expansions,
  \* lib/conflict-utils.ts: the memoization cache of generateCommandSuggestions
  \* and the last call of generateCommandSuggestions or detectImportConflicts
  suggestionCache, lastCall,
  \* lib/storage.ts: the rule list exported, the text written, the list read back
  xRules, xText, xResult,
  \* App: the view shown; the component that uses usePermissionFlow and
  \* whether it is mounted; the operating system's answer to
  \* check_accessibility and whether the command fails
  view, host, mounted, osGranted, checkFailing,
  \* usePermissionFlow: state, isMountedRef, the interval of startPolling,
  \* the invokes of check_accessibility under way, the pending retry timers
  pfState, isMountedRef, pollingInterval, pfChecks, pfTimers,
  \* OnboardingView: onContinue is under way.  PermissionStatus: the
  \* onStatusChange prop, previousGrantedRef, the values notified so far
  continuing, onStatusChange, previousGrantedRef, statusLog,
  \* state/tray-store.tsx: the tray state, the tray commands on their way to
  \* the backend and the responses on their way back
  trayState, trayCalls, trayResponses,
  \* lib/conflict-utils.ts: the result of validateCommandWithConflicts
  vcResult,
  \* ShortcutsProvider and lib/storage.ts: the rules file on disk and its
  \* content before the start, the position of the start-up load, the
  \* writeTextFile calls under way, the changes of the rule list so far,
  \* the localStorage item "shortcuts_rules"
  rulesFile, fileAtStart, loadStep, pendingWrites, changeCount, lsMirror,
  \* App onContinue: the runs under way, the commands invoked so far with
  \* the way each promise has settled
  ocRuns, engLog

valVars == <<vCommand, vText, vExisting, vSelfId, vErrors, vPhase>>
parseVars == <<pText, pExisting, pStorage, pDisk, pParse, pParseC>>
storeVars == <<rules, nextId, clock, importCount, selectedId, edKey, edCommand, edText,
               edErrors, edConflict, edDebounce, edTimers,
               settingsOpen, importConflicts, pendingImportRules,
               showConflictDialog, resolutions>>

coordVars == <<pausedByUser, pausedBySecureInput, permissionGranted, secureInput>>
pauseVars == <<calls, responses, isPaused, pauseReason, canResume, lastUser, lastSecure>>
engineVars == <<buffer, guard, synthQueue, lastEvent, expansions>>

suggestVars == <<suggestionCache, lastCall>>
exportVars == <<xRules, xText, xResult>>
permVars == <<view, host, mounted, osGranted, checkFailing, pfState, isMountedRef,
              pollingInterval, pfChecks, pfTimers, continuing, onStatusChange,
              previousGrantedRef, statusLog>>
trayVars == <<trayState, trayCalls, trayResponses>>
checkVars == <<vcResult>>
persistVars == <<rulesFile, fileAtStart, loadStep, pendingWrites, changeCount, lsMirror>>
startVars == <<ocRuns, engLog>>

vars == <<valVars, parseVars, storeVars, coordVars, pauseVars, engineVars,
          suggestVars, exportVars, permVars, trayVars, checkVars, persistVars, startVars>>

\* the variables outside each part of the program
notVal == <<parseVars, storeVars, coordVars, pauseVars, engineVars, suggestVars, exportVars,
             permVars, trayVars, checkVars,
   persistVars, startVars>>
notParse == <<valVars, storeVars, coordVars, pauseVars, engineVars, suggestVars, exportVars,
               permVars, trayVars, checkVars,
   persistVars, startVars>>
notStore == <<valVars, parseVars, coordVars, pauseVars, engineVars, suggestVars, exportVars,
               permVars, trayVars, checkVars,
   persistVars, startVars>>
notPause == <<valVars, parseVars, storeVars, engineVars, suggestVars, exportVars,
               permVars, trayVars, checkVars,
   persistVars, startVars>>
notEngine == <<valVars, parseVars, storeVars, pauseVars, suggestVars, exportVars,
                permVars, trayVars, checkVars,
   persistVars, startVars>>
notSuggest == <<valVars, parseVars, storeVars, coordVars, pauseVars, engineVars, exportVars,
                 permVars, trayVars, checkVars,
   persistVars, startVars>>
notExport == <<valVars, parseVars, storeVars, coordVars, pauseVars, engineVars, suggestVars,
                permVars, trayVars, checkVars,
   persistVars, startVars>>
notPerm == <<valVars, parseVars, storeVars, coordVars, pauseVars, engineVars, suggestVars,
             exportVars, trayVars, checkVars,
   persistVars, startVars>>
notTray == <<valVars, parseVars, storeVars, engineVars, suggestVars, exportVars, permVars, checkVars,
   persistVars, startVars>>

-----------------------------------------------------------------------------
(* Characters and strings *)

LowerLetters == <<"a","b","c","d","e","f","g","h","i","j","k","l","m",
                  "n","o","p","q","r","s","t","u","v","w","x","y","z">>
UpperLetters == <<"A","B","C","D","E","F","G","H","I","J","K","L","M",
                  "N","O","P","Q","R","S","T","U","V","W","X","Y","Z">>
Digits == {"0","1","2","3","4","5","6","7","8","9"}

Range(s) == {s[i] : i \in DOMAIN s}

IsLetter(c) == c \in Range(LowerLetters) \/ c \in Range(UpperLetters)

\* String.prototype.toLowerCase on one character
ToLowerChar(c) ==
  IF c \in Range(UpperLetters)
  THEN LowerLetters[CHOOSE i \in DOMAIN UpperLetters : UpperLetters[i] = c]
  ELSE c

\* String.prototype.toLowerCase
ToLowerCase(s) == [i \in DOMAIN s |-> ToLowerChar(s[i])]

\* String.prototype.startsWith
StartsWith(s, p) == Len(s) >= Len(p) /\ SubSeq(s, 1, Len(p)) = p

\* n copies of the character c
Repeat(c, n) == [i \in 1..n |-> c]

\* all strings over the alphabet A of length at most n
StringsUpTo(A, n) == UNION {[1..k -> A] : k \in 0..n}

-----------------------------------------------------------------------------
(* lib/validation.ts *)

RESERVED == { <<".","h","e","l","p">>,
              <<".","s","e","t","t","i","n","g","s">>,
              <<".","a","b","o","u","t">>,
              <<".","q","u","i","t">>,
              <<".","e","x","i","t">>,
              <<".","v","e","r","s","i","o","n">>,
              <<".","i","n","f","o">> }

MinCommandLength == 4      \* command.length <= 4 is an error
MaxCommandLength == 50     \* command.length > 50 is an error
MaxTextLength == 10000     \* replacementText.length > 10_000 is an error
MaxTextLines == 100        \* more than 100 lines is an error

Undefined == "undefined"   \* an absent optional argument or property

\* the character class [A-Za-z0-9_]
WordChar(c) == IsLetter(c) \/ c \in Digits \/ c = "_"

\* /^\.[A-Za-z0-9_]+$/.test(s)
MatchesCommandPattern(s) ==
  /\ Len(s) >= 2
  /\ s[1] = "."
  /\ \A i \in 2..Len(s) : WordChar(s[i])

\* /__/.test(s)
HasDoubleUnderscore(s) ==
  \E i \in 1..(Len(s) - 1) : s[i] = "_" /\ s[i + 1] = "_"

\* /^\._|_$/.test(s)
HasEdgeUnderscore(s) ==
  \/ Len(s) >= 2 /\ s[1] = "." /\ s[2] = "_"
  \/ Len(s) >= 1 /\ s[Len(s)] = "_"

\* s.split("\n").length
LineCount(s) == Cardinality({i \in DOMAIN s : s[i] = "\n"}) + 1

Err(f, m) == [field |-> f, message |-> m]

\* errors.push(e) when cond holds
PushIf(errors, cond, e) == IF cond THEN Append(errors, e) ELSE errors

\* existing.find(r => r.id !== selfId && r.command.toLowerCase() === lower)
HasDuplicate(command, existing, selfId) ==
  \E i \in DOMAIN existing :
     /\ existing[i].id # selfId
     /\ ToLowerCase(existing[i].command) = ToLowerCase(command)

\* a length check that lets a command of 4 characters through
LengthTooShortStrict(command) == Len(command) < MinCommandLength

\* command.length <= 4
LengthTooShort(command) == Len(command) <= MinCommandLength

validateRule(command, replacementText, existing, selfId) ==
  LET e1 == PushIf(<<>>, ~StartsWith(command, <<".">>),
                   Err("command", "Must start with a period (.)"))
      e2 == PushIf(e1, LengthTooShort(command),
                   Err("command", "Must be longer than 4 characters"))
      e3 == PushIf(e2, ~MatchesCommandPattern(command),
                   Err("command", "Only letters, numbers, and underscores after the period"))
      e4 == PushIf(e3, Len(command) > MaxCommandLength,
                   Err("command", "Maximum length is 50 characters"))
      e5 == PushIf(e4, HasDoubleUnderscore(command),
                   Err("command", "No consecutive underscores"))
      e6 == PushIf(e5, HasEdgeUnderscore(command),
                   Err("command", "No leading or trailing underscore after the period"))
      e7 == PushIf(e6, ToLowerCase(command) \in RESERVED,
                   Err("command", "This command is reserved"))
      e8 == PushIf(e7, HasDuplicate(command, existing, selfId),
                   Err("command", "Must be unique"))
      e9 == PushIf(e8, Len(replacementText) = 0,
                   Err("replacementText", "Replacement text cannot be empty"))
      e10 == PushIf(e9, Len(replacementText) > MaxTextLength,
                   Err("replacementText", "Maximum length is 10,000 characters"))
      e11 == PushIf(e10, LineCount(replacementText) > MaxTextLines,
                   Err("replacementText", "Maximum 100 lines"))
  IN e11

\* whether a list of validation errors has one for the field f
HasErrorFor(errors, f) == \E i \in DOMAIN errors : errors[i].field = f

-----------------------------------------------------------------------------
(* Calls of validateRule: the arguments are drawn in the initial state, the  *)
(* action Validate runs the function.                                       *)

MaxHead == 2       \* longest enumerated beginning of a command
MaxTail == 1       \* longest enumerated ending of a command
MaxTextHead == 2   \* longest enumerated beginning of a replacement text

CmdAlphabet == {".", "a", "A", "_", "-"}
TextAlphabet == {"a", "\n", "NUL"}

\* lengths of the run of "a" between the beginning and the ending
FillLengths == {0, 1, 2, 3, MaxCommandLength - 4, MaxCommandLength - 3,
                MaxCommandLength - 2, MaxCommandLength - 1}

ExtraCommands ==
  { <<".","h","e","l","p">>, <<".","H","E","L","P">>, <<".","Q","u","i","t">>,
    <<".","h","e","l","p","s">>, <<".","i","n","f","o">>,
    <<".","a","1","b","2">>, <<".","A","1","B","2">>, <<".","a","1","b","3">>,
    <<".","a","_","_","a">>, <<".","a","_","b","_","c">>, <<".","a","b","c","_">>,
    <<".","_","a","b","c">>, <<".","a"," ","b","c">>, <<".","a","b",".","c">>,
    <<".","s","i","g">>, <<".","9","9","9","9">> }

CommandInputs ==
  ExtraCommands \cup
  { h \o Repeat("a", n) \o t :
      h \in StringsUpTo(CmdAlphabet, MaxHead),
      n \in FillLengths,
      t \in StringsUpTo(CmdAlphabet, MaxTail) }

TextInputs ==
  { h \o Repeat(u, n) :
      h \in StringsUpTo(TextAlphabet, MaxTextHead),
      u \in {"a", "\n"},
      n \in {0, MaxTextLines - 2, MaxTextLines - 1, MaxTextLines,
             MaxTextLength - 1, MaxTextLength} }

Rule(id, command, text, created, updated) ==
  [id |-> id, command |-> command, replacementText |-> text,
   createdAt |-> created, updatedAt |-> updated]

ValExistingA == Rule("r1", <<".","a","a","a","a">>, <<"x">>, 0, 0)
ValExistingB == Rule("r2", <<".","A","1","b","2">>, <<"y">>, 0, 0)

\* (existing, selfId) pairs: a new rule, and an edit of each existing rule
ValContexts ==
  { <<(<<>>), Undefined>>,
    <<(<<ValExistingA, ValExistingB>>), Undefined>>,
    <<(<<ValExistingA, ValExistingB>>), "r1">>,
    <<(<<ValExistingA, ValExistingB>>), "r2">> }

ValInitCommand ==
  /\ vCommand \in CommandInputs
  /\ vText = <<"o", "k">>
  /\ \E c \in ValContexts : vExisting = c[1] /\ vSelfId = c[2]
  /\ vErrors = <<>>
  /\ vPhase = "input"

ValInitText ==
  /\ vCommand = <<".","v","a","l","i","d">>
  /\ vText \in TextInputs
  /\ vExisting = <<>>
  /\ vSelfId = Undefined
  /\ vErrors = <<>>
  /\ vPhase = "input"

Validate ==
  /\ vPhase = "input"
  /\ vErrors' = validateRule(vCommand, vText, vExisting, vSelfId)
  /\ vPhase' = "done"
  /\ UNCHANGED <<vCommand, vText, vExisting, vSelfId, notVal>>

ValIdle ==
  /\ vCommand = <<>>
  /\ vText = <<>>
  /\ vExisting = <<>>
  /\ vSelfId = Undefined
  /\ vErrors = <<>>
  /\ vPhase = "idle"

-----------------------------------------------------------------------------
(* C6: validateRule reports no error for the field "command" exactly when    *)
(* the command starts with ".", is 5 to 50 characters long, has only         *)
(* letters, digits and underscores after the period, no doubled underscore,  *)
(* no underscore right after the period or at the end, is not a reserved     *)
(* word (case-insensitive) and differs case-insensitively from the command   *)
(* of every existing rule other than the rule being edited (selfId).         *)

CommandAcceptable(c, existing, selfId) ==
  /\ Len(c) >= 5 /\ Len(c) <= 50
  /\ c[1] = "."
  /\ \A i \in 2..Len(c) : IsLetter(c[i]) \/ c[i] \in Digits \/ c[i] = "_"
  /\ \A i \in 2..Len(c) : ~(c[i - 1] = "_" /\ c[i] = "_")
  /\ c[2] # "_"
  /\ c[Len(c)] # "_"
  /\ \A w \in RESERVED : ToLowerCase(c) # w
  /\ \A i \in DOMAIN existing :
        existing[i].id = selfId \/
        ToLowerCase(existing[i].command) # ToLowerCase(c)

C6_CommandErrorsExact ==
  vPhase = "done" =>
    (~HasErrorFor(vErrors, "command")
       <=> CommandAcceptable(vCommand, vExisting, vSelfId))

\* an edited rule keeps its own name: accepted although the store holds it
C6_Witness ==
  /\ vPhase = "done"
  /\ ~HasErrorFor(vErrors, "command")
  /\ \E i \in DOMAIN vExisting :
        vExisting[i].id = vSelfId /\
        ToLowerCase(vExisting[i].command) = ToLowerCase(vCommand)

(* C7: validateRule reports an error for the field "replacementText"         *)
(* exactly when the text is empty, longer than 10,000 characters, contains   *)
(* a null character, or has more than 100 lines.                             *)

TextRejectable(t) ==
  \/ Len(t) = 0
  \/ Len(t) > 10000
  \/ \E i \in DOMAIN t : t[i] = "NUL"
  \/ LineCount(t) > 100

C7_TextErrorsExact ==
  vPhase = "done" => (HasErrorFor(vErrors, "replacementText") <=> TextRejectable(vText))

-----------------------------------------------------------------------------
(* lib/storage.ts.  A text is either not JSON (JSON.parse throws) or the     *)
(* JSON document of a value; a value is null, a boolean, a number, a string, *)
(* an array or an object.                                                    *)

RULES_VERSION == 1

JNull == [t |-> "null"]
JBool(b) == [t |-> "boolean", v |-> b]
JNum(n) == [t |-> "number", v |-> n]
JStr(w) == [t |-> "string", v |-> w]
JArr(items) == [t |-> "array", items |-> items]
JObj(fields) == [t |-> "object", fields |-> fields]
JUndefined == [t |-> "undefined"]

\* a text that is not JSON, with its characters; the JSON document of v
NotJson(raw) == [valid |-> FALSE, raw |-> raw]
JsonText(v) == [valid |-> TRUE, value |-> v]

Null == [t |-> "null result"]   \* the function returned null
Thrown == [t |-> "thrown"]      \* an exception left the expression
NotRun == [t |-> "not run"]
NoFile == [t |-> "no file"]   \* the rules file does not exist
RulesResult(items) == [t |-> "rules", rules |-> items]

\* !v
Falsy(v) ==
  \/ v.t \in {"null", "undefined"}
  \/ v.t = "boolean" /\ ~v.v
  \/ v.t = "number" /\ v.v = 0
  \/ v.t = "string" /\ v.v = <<>>

\* v[k]: a TypeError on null and undefined, undefined when v has no such property
Get(v, k) ==
  IF v.t \in {"null", "undefined"} THEN Thrown
  ELSE IF v.t = "object" /\ k \in DOMAIN v.fields THEN v.fields[k]
  ELSE JUndefined

\* Array.isArray(v)
IsArray(v) == v # Thrown /\ v.t = "array"

\* typeof v === "object"
TypeofObject(v) == v.t \in {"object", "array", "null"}

\* readers that accept any version
VersionUnchecked(parsed) == FALSE

\* parsed.version !== RULES_VERSION
VersionDiffers(parsed) == Get(parsed, "version") # JNum(RULES_VERSION)

\* try { ... } catch { return null }
CatchNull(r) == IF r = Thrown THEN Null ELSE r

\* localStorage.getItem(STORAGE_KEY) is null when the key is missing
loadRulesFromStorage(missing, text) ==
  CatchNull(
    IF missing \/ text = NotJson(<<>>) THEN Null        \* !raw
    ELSE IF ~text.valid THEN Thrown
    ELSE LET parsed == text.value IN
         IF ~TypeofObject(parsed) \/ parsed = JNull THEN Null
         ELSE IF VersionDiffers(parsed) THEN Null
         ELSE IF ~IsArray(Get(parsed, "rules")) THEN Null
         ELSE RulesResult(Get(parsed, "rules").items))

\* fs: "ok", "absent" (exists is false), "existsThrows", "readThrows"
loadRulesFromDisk(fs, text) ==
  CatchNull(
    IF fs = "existsThrows" THEN Thrown
    ELSE IF fs = "absent" THEN Null
    ELSE IF fs = "readThrows" THEN Thrown
    ELSE IF ~text.valid THEN Thrown
    ELSE LET parsed == text.value IN
         IF Get(parsed, "version") = Thrown THEN Thrown
         ELSE IF VersionDiffers(parsed) \/ ~IsArray(Get(parsed, "rules")) THEN Null
         ELSE RulesResult(Get(parsed, "rules").items))

parseRulesFile(text) ==
  CatchNull(
    IF ~text.valid THEN Thrown
    ELSE LET parsed == text.value IN
         IF Falsy(parsed) \/ VersionDiffers(parsed) \/ ~IsArray(Get(parsed, "rules"))
         THEN Null
         ELSE RulesResult(Get(parsed, "rules").items))

\* rule.command.toLowerCase(): a TypeError unless rule.command is a string
CommandLower(rule) ==
  LET c == Get(rule, "command") IN
  IF c.t # "string" THEN Thrown ELSE JStr(ToLowerCase(c.v))

\* items.some(rule => commands.has(rule.command.toLowerCase())), left to right:
\* true at the first hit, Thrown at the first TypeError before a hit
RECURSIVE SomeConflict(_, _)
SomeConflict(items, commands) ==
  IF items = <<>> THEN JBool(FALSE)
  ELSE LET c == CommandLower(Head(items)) IN
       IF c = Thrown THEN Thrown
       ELSE IF c.v \in commands THEN JBool(TRUE)
       ELSE SomeConflict(Tail(items), commands)

parseRulesFileWithConflicts(text, existingRules) ==
  CatchNull(
    IF ~text.valid THEN Thrown
    ELSE LET parsed == text.value IN
         IF Falsy(parsed) \/ VersionDiffers(parsed) \/ ~IsArray(Get(parsed, "rules"))
         THEN Null
         ELSE LET existingCommandsSet ==
                    {ToLowerCase(existingRules[i].command) : i \in DOMAIN existingRules}
                  hasConflicts == SomeConflict(Get(parsed, "rules").items, existingCommandsSet)
              IN IF hasConflicts = Thrown THEN Thrown
                 ELSE [t |-> "import", rules |-> Get(parsed, "rules").items,
                       hasConflicts |-> hasConflicts.v])

-----------------------------------------------------------------------------
(* Calls of the four readers on one text: the text is drawn in the initial   *)
(* state, each action runs one function on it.                               *)

MaxRuleItems == 2   \* longest "rules" array of an enumerated document

JRuleAlpha == JObj([id |-> JStr(<<"r","1">>), command |-> JStr(<<".","a","l","p","h","a">>),
                    replacementText |-> JStr(<<"x">>)])
JRuleBeta == JObj([id |-> JStr(<<"r","2">>), command |-> JStr(<<".","B","E","T","A","1">>),
                   replacementText |-> JStr(<<"y">>)])
JRuleNoCommand == JObj([id |-> JStr(<<"r","3">>)])

JRuleItems == {JRuleAlpha, JRuleBeta, JRuleNoCommand, JNull, JNum(5)}

JVersions == {JNum(RULES_VERSION), JNum(RULES_VERSION + 1), JNum(0),
              JStr(<<"1">>), JNull}

JRulesValues ==
  {JArr(items) : items \in StringsUpTo(JRuleItems, MaxRuleItems)}
    \cup {JObj([length |-> JNum(0)]), JStr(<<"r">>), JNull, JNum(1)}

JDocuments ==
  {JObj([version |-> v, rules |-> r]) : v \in JVersions, r \in JRulesValues}
    \cup {JObj([rules |-> r]) : r \in JRulesValues}
    \cup {JObj([version |-> v]) : v \in JVersions}
    \cup {JNull, JNum(0), JNum(1), JStr(<<>>), JStr(<<"1">>), JBool(FALSE),
          JBool(TRUE), JArr(<<>>), JArr(<<JNum(1)>>)}

ParseTexts ==
  {JsonText(v) : v \in JDocuments} \cup {NotJson(<<>>), NotJson(<<"{">>)}

ParseExisting == <<Rule("e1", <<".","b","e","t","a","1">>, <<"z">>, 0, 0)>>

ParseInit ==
  /\ pText \in ParseTexts
  /\ pExisting = ParseExisting
  /\ pStorage = NotRun
  /\ pDisk = NotRun
  /\ pParse = NotRun
  /\ pParseC = NotRun

LoadRulesFromStorage ==
  /\ pStorage = NotRun
  /\ \E missing \in BOOLEAN : pStorage' = loadRulesFromStorage(missing, pText)
  /\ UNCHANGED <<pText, pExisting, pDisk, pParse, pParseC, notParse>>

LoadRulesFromDisk ==
  /\ pDisk = NotRun
  /\ \E fs \in {"ok", "absent", "existsThrows", "readThrows"} :
        pDisk' = loadRulesFromDisk(fs, pText)
  /\ UNCHANGED <<pText, pExisting, pStorage, pParse, pParseC, notParse>>

ParseRulesFile ==
  /\ pParse = NotRun
  /\ pParse' = parseRulesFile(pText)
  /\ UNCHANGED <<pText, pExisting, pStorage, pDisk, pParseC, notParse>>

ParseRulesFileWithConflicts ==
  /\ pParseC = NotRun
  /\ pParseC' = parseRulesFileWithConflicts(pText, pExisting)
  /\ UNCHANGED <<pText, pExisting, pStorage, pDisk, pParse, notParse>>

ParseIdle ==
  /\ pText = NotJson(<<>>)
  /\ pExisting = <<>>
  /\ pStorage = NotRun
  /\ pDisk = NotRun
  /\ pParse = NotRun
  /\ pParseC = NotRun

-----------------------------------------------------------------------------
(* C8: a version mismatch is "no usable rules": loadRulesFromStorage,        *)
(* loadRulesFromDisk, parseRulesFile and parseRulesFileWithConflicts return  *)
(* null, never a rule list and never an exception, when the stored version   *)
(* differs from RULES_VERSION, when "rules" is not an array, or when the     *)
(* text is not valid JSON.                                                   *)

DocField(v, k) ==
  IF v.t = "object" /\ k \in DOMAIN v.fields THEN v.fields[k] ELSE JUndefined

NoUsableRules(text) ==
  \/ ~text.valid
  \/ DocField(text.value, "version") # JNum(1)
  \/ DocField(text.value, "rules").t # "array"

C8_MismatchGivesNull ==
  NoUsableRules(pText) =>
    \A r \in {pStorage, pDisk, pParse, pParseC} : r \in {NotRun, Null}

\* all four readers have returned null on a well-formed document of another
\* version that holds a rule
C8_Witness ==
  /\ pText.valid
  /\ DocField(pText.value, "version") = JNum(2)
  /\ DocField(pText.value, "rules") = JArr(<<JRuleAlpha>>)
  /\ pStorage = Null /\ pDisk = Null /\ pParse = Null /\ pParseC = Null

-----------------------------------------------------------------------------
(* state/shortcuts-store.tsx *)

NoRule == [none |-> TRUE]     \* null where a rule is expected
NoId == "null"                \* selectedId === null

\* rs.find(r => r.id === id) || null
FindRule(rs, id) ==
  IF \E i \in DOMAIN rs : rs[i].id = id
  THEN rs[CHOOSE i \in DOMAIN rs : rs[i].id = id /\ \A j \in 1..(i - 1) : rs[j].id # id]
  ELSE NoRule

\* the rule argument of upsertRule: id is Undefined for a new rule
upsertRule(prev, id, command, text, now, freshId) ==
  IF id # Undefined
  THEN [i \in DOMAIN prev |->
          IF prev[i].id = id
          THEN [prev[i] EXCEPT !.command = command, !.replacementText = text,
                               !.updatedAt = now]
          ELSE prev[i]]
  ELSE Append(prev, Rule(freshId, command, text, now, now))

deleteRule(prev, id) == SelectSeq(prev, LAMBDA r : r.id # id)

-----------------------------------------------------------------------------
(* lib/conflict-utils.ts: detectImportConflicts.  The suggestedAlternatives  *)
(* of a conflict item are offered as rename texts in the dialog; here a      *)
(* rename text is any text the user enters.                                  *)

\* a lookup that compares the existing commands as they are written
HasCommandKeyExact(existing, k) ==
  \E i \in DOMAIN existing : existing[i].command = k

\* existingCommandMap.has(k)
HasCommandKey(existing, k) ==
  \E i \in DOMAIN existing : ToLowerCase(existing[i].command) = k

\* existingCommandMap.get(k): a later rule replaces an earlier one under its key
CommandMapGet(existing, k) ==
  existing[CHOOSE i \in DOMAIN existing :
             /\ ToLowerCase(existing[i].command) = k
             /\ \A j \in (i + 1)..Len(existing) : ToLowerCase(existing[j].command) # k]

detectImportConflicts(importedRules, existingRules) ==
  LET hits == SelectSeq(importedRules,
                LAMBDA r : HasCommandKey(existingRules, ToLowerCase(r.command)))
  IN [i \in DOMAIN hits |->
        [importedRule |-> hits[i],
         existingRule |-> CommandMapGet(existingRules, ToLowerCase(hits[i].command))]]

-----------------------------------------------------------------------------
(* views/SettingsView.tsx: handleConflictResolution *)

\* a Map from rule ids to values: has(id) and the empty Map
NoEntry == [none |-> TRUE]
MapHas(map, id) == id \in DOMAIN map /\ map[id] # NoEntry

\* conflictMap.get(id): a later conflict replaces an earlier one under its id
ConflictMapGet(conflicts, id) ==
  IF \E i \in DOMAIN conflicts : conflicts[i].importedRule.id = id
  THEN conflicts[CHOOSE i \in DOMAIN conflicts :
                   /\ conflicts[i].importedRule.id = id
                   /\ \A j \in (i + 1)..Len(conflicts) : conflicts[j].importedRule.id # id]
  ELSE NoRule

\* one pass of the loop over pendingImportRules
ApplyResolution(updatedRules, importedRule, resolutionMap, conflicts) ==
  LET conflict == ConflictMapGet(conflicts, importedRule.id)
      hasResolution == MapHas(resolutionMap, importedRule.id)
  IN IF conflict # NoRule /\ hasResolution
     THEN LET resolution == resolutionMap[importedRule.id] IN
          CASE resolution.action = "skip" -> updatedRules
            [] resolution.action = "overwrite" ->
                 Append(SelectSeq(updatedRules, LAMBDA r : r.id # conflict.existingRule.id),
                        importedRule)
            [] resolution.action = "rename" ->
                 IF resolution.newCommand # <<>>
                 THEN Append(updatedRules,
                             [importedRule EXCEPT !.command = resolution.newCommand])
                 ELSE updatedRules
     ELSE Append(updatedRules, importedRule)

RECURSIVE ApplyResolutions(_, _, _, _)
ApplyResolutions(updatedRules, pending, resolutionMap, conflicts) ==
  IF pending = <<>> THEN updatedRules
  ELSE ApplyResolutions(
         ApplyResolution(updatedRules, Head(pending), resolutionMap, conflicts),
         Tail(pending), resolutionMap, conflicts)

\* the list handed to replaceAllRules
handleConflictResolution(current, pending, resolutionMap, conflicts) ==
  ApplyResolutions(current, pending, resolutionMap, conflicts)

-----------------------------------------------------------------------------
(* views/ShortcutsView.tsx: ShortcutsView and EditorCard.  The flags         *)
(* showSuggestions and isCheckingConflicts only change what is drawn and     *)
(* are left out; choosing a suggestion is entering that text.                *)

IsSpace(c) == c \in {" ", "\t", "\n"}

\* String.prototype.trim
Trim(w) ==
  LET keep == {i \in DOMAIN w : ~IsSpace(w[i])} IN
  IF keep = {} THEN <<>>
  ELSE SubSeq(w, CHOOSE i \in keep : \A j \in keep : i <= j,
                 CHOOSE i \in keep : \A j \in keep : i >= j)

NoConflict == [hasConflict |-> FALSE, conflictingRule |-> NoRule]

\* commandMap: the rules other than the edited one, by lower-case command
EditorCommandMap(allRules, initialId) ==
  SelectSeq(allRules, LAMBDA r : r.id # initialId)

\* what checkConflicts computes for a command of more than one character
ConflictOf(commandValue, allRules, initialId) ==
  LET others == EditorCommandMap(allRules, initialId)
      normalizedCommand == Trim(ToLowerCase(commandValue))
  IN IF HasCommandKey(others, normalizedCommand)
     THEN [hasConflict |-> TRUE,
           conflictingRule |-> CommandMapGet(others, normalizedCommand)]
     ELSE NoConflict

\* selected?.id ?? "new"
EditorKey(selected) == IF selected = NoRule THEN "new" ELSE selected.id
\* initial?.id
InitialId(selected) == IF selected = NoRule THEN Undefined ELSE selected.id

Selected == FindRule(rules, selectedId)

\* The editor after a render with the rule list rs and the selection sel:
\* a new key mounts a fresh EditorCard (the old one's timers no longer reach
\* any state); a new rule list re-creates checkConflicts and so re-arms the
\* debounce timer.
EditorRenders(rs, sel, rulesReplaced) ==
  LET selected == FindRule(rs, sel) IN
  IF EditorKey(selected) # edKey
  THEN /\ edKey' = EditorKey(selected)
       /\ edCommand' = IF selected = NoRule THEN <<>> ELSE selected.command
       /\ edText' = IF selected = NoRule THEN <<>> ELSE selected.replacementText
       /\ edErrors' = <<>>
       /\ edConflict' = NoConflict
       /\ edDebounce' = TRUE
       /\ edTimers' = <<>>
  ELSE /\ edDebounce' = (edDebounce \/ rulesReplaced)
       /\ UNCHANGED <<edKey, edCommand, edText, edErrors, edConflict, edTimers>>

importVars == <<settingsOpen, importConflicts, pendingImportRules,
                showConflictDialog, resolutions>>
editorVars == <<edKey, edCommand, edText, edErrors, edConflict, edDebounce, edTimers>>

MaxRules == 3      \* longest rule list
MaxSaves == 1      \* saves of the editor in one run
MaxImport == 2     \* most rules in an imported file
MaxImports == 1    \* imports in one run

NewIds == <<"n1", "n2", "n3", "n4", "n5", "n6">>   \* crypto.randomUUID()

CmdSig == <<".","s","i","g">>
CmdAlpha == <<".","a","l","p","h","a">>
CmdAlphaUpper == <<".","A","L","P","H","A">>
CmdBeta == <<".","b","e","t","a","1">>
CmdBetaUpper == <<".","B","E","T","A","1">>
CmdGamma == <<".","g","a","m","m","a">>

\* texts the user enters in the command field, the replacement field and
\* the rename field
TypedCommands == {<<>>, CmdAlphaUpper, CmdGamma}
TypedTexts == {<<"t">>}
RenameTexts == {<<>>, CmdAlpha}

\* the rule lists the store starts from: the built-in default, or a list
\* found in localStorage
DefaultRules ==
  <<Rule("d1", CmdSig, <<"B","e","s","t",",","\n","Y","o","u","r"," ","N","a","m","e">>, 0, 0)>>
StoredRules == <<Rule("e1", CmdAlpha, <<"t">>, 0, 0), Rule("e2", CmdBeta, <<"t">>, 0, 0)>>

\* rules of imported files: ids are distinct within a file; a file exported
\* earlier carries ids the store still uses
ImportRulePool ==
  { Rule("e2", CmdGamma, <<"t">>, 0, 0),
    Rule("e1", CmdBetaUpper, <<"t">>, 0, 0) }

ImportLists ==
  {f \in StringsUpTo(ImportRulePool, MaxImport) :
     f # <<>> /\ \A i, j \in DOMAIN f : i # j => f[i].id # f[j].id}

\* JSON.stringify of a rule, as the object JSON.parse gives back
RuleJson(r) ==
  JObj([id |-> JStr(r.id), command |-> JStr(r.command),
        replacementText |-> JStr(r.replacementText),
        createdAt |-> JNum(r.createdAt), updatedAt |-> JNum(r.updatedAt)])

\* an element of parsed.rules used as an ExpansionRule
JsonRule(v) ==
  Rule(v.fields.id.v, v.fields.command.v, v.fields.replacementText.v,
       v.fields.createdAt.v, v.fields.updatedAt.v)

RulesDocument(version, rs) ==
  JsonText(JObj([version |-> JNum(version),
                 rules |-> JArr([i \in DOMAIN rs |-> RuleJson(rs[i])])]))

ImportTexts ==
  {RulesDocument(RULES_VERSION, f) : f \in ImportLists}
    \cup {NotJson(<<"{">>), RulesDocument(RULES_VERSION + 1, <<Rule("i1", CmdGamma, <<"i">>, 0, 0)>>)}

ImportIds == {r.id : r \in ImportRulePool}
EmptyMap == [id \in ImportIds |-> NoEntry]

StoreInit ==
  /\ rules \in {DefaultRules, StoredRules}
  /\ nextId = 1
  /\ clock = 1
  /\ importCount = 0
  /\ selectedId = rules[1].id
  /\ edKey = rules[1].id
  /\ edCommand = rules[1].command
  /\ edText = rules[1].replacementText
  /\ edErrors = <<>>
  /\ edConflict = NoConflict
  /\ edDebounce = TRUE
  /\ edTimers = <<>>
  /\ settingsOpen = FALSE
  /\ importConflicts = <<>>
  /\ pendingImportRules = <<>>
  /\ showConflictDialog = FALSE
  /\ resolutions = EmptyMap

\* onChange of the command field: setCommand
TypeCommand ==
  /\ ~settingsOpen
  /\ \E c \in TypedCommands :
        /\ c # edCommand
        /\ edCommand' = c
  /\ edDebounce' = TRUE
  /\ UNCHANGED <<rules, nextId, clock, importCount, selectedId, edKey, edText, edErrors,
                 edConflict, edTimers, importVars, notStore>>

\* onChange of the replacement field: setReplacementText
TypeText ==
  /\ ~settingsOpen
  /\ \E t \in TypedTexts : t # edText /\ edText' = t
  /\ UNCHANGED <<rules, nextId, clock, importCount, selectedId, edKey, edCommand, edErrors,
                 edConflict, edDebounce, edTimers, importVars, notStore>>

\* the 300 ms timer of the debounce effect fires: checkConflicts(command).
\* A 50 ms timer started by the previous run has fired by then.
DebounceFires ==
  /\ edDebounce
  /\ edTimers = <<>>
  /\ edDebounce' = FALSE
  /\ IF Len(edCommand) <= 1
     THEN edConflict' = NoConflict /\ edTimers' = edTimers
     ELSE /\ edTimers' = Append(edTimers,
                           ConflictOf(edCommand, rules, InitialId(Selected)))
          /\ edConflict' = edConflict
  /\ UNCHANGED <<rules, nextId, clock, importCount, selectedId, edKey, edCommand, edText,
                 edErrors, importVars, notStore>>

\* the 50 ms timer of checkConflicts fires: setConflictState
ConflictTimerFires ==
  /\ edTimers # <<>>
  /\ edConflict' = Head(edTimers)
  /\ edTimers' = Tail(edTimers)
  /\ UNCHANGED <<rules, nextId, clock, importCount, selectedId, edKey, edCommand, edText,
                 edErrors, edDebounce, importVars, notStore>>

\* handleSave relying on the flagged conflict alone
SaveAllowedUnvalidated(conflict, errs) == ~conflict.hasConflict

\* whether handleSave goes on to call onSave
SaveAllowed(conflict, errs) == ~conflict.hasConflict /\ Len(errs) = 0

\* click on Save / Create: handleSave, and onSave of ShortcutsView.  The
\* clock advances with each call of onSave.
HandleSave ==
  /\ ~settingsOpen
  /\ ~edConflict.hasConflict
  /\ LET errs == validateRule(edCommand, edText, rules, InitialId(Selected)) IN
     /\ edErrors' = errs
     /\ IF SaveAllowed(edConflict, errs)
        THEN /\ clock <= MaxSaves
             /\ Selected = NoRule => (nextId <= Len(NewIds) /\ Len(rules) < MaxRules)
             /\ rules' = upsertRule(rules, InitialId(Selected), edCommand, edText,
                                    clock, NewIds[nextId])
             /\ nextId' = IF Selected = NoRule THEN nextId + 1 ELSE nextId
             /\ clock' = clock + 1
             /\ edDebounce' = TRUE
        ELSE /\ errs # edErrors
             /\ UNCHANGED <<rules, nextId, clock, edDebounce>>
  /\ UNCHANGED <<importCount, selectedId, edKey, edCommand, edText, edConflict,
                 edTimers, importVars, notStore>>

\* click on a rule of the list: setSelectedId(rule.id)
SelectRule ==
  /\ ~settingsOpen
  /\ \E i \in DOMAIN rules :
        /\ rules[i].id # selectedId
        /\ selectedId' = rules[i].id
        /\ EditorRenders(rules, rules[i].id, FALSE)
  /\ UNCHANGED <<rules, nextId, clock, importCount, importVars, notStore>>

\* click on New: setSelectedId(null)
NewRule ==
  /\ ~settingsOpen
  /\ selectedId # NoId
  /\ selectedId' = NoId
  /\ EditorRenders(rules, NoId, FALSE)
  /\ UNCHANGED <<rules, nextId, clock, importCount, importVars, notStore>>

\* click on "edit the conflicting shortcut": handleConflictEdit
EditConflicting ==
  /\ ~settingsOpen
  /\ edConflict.hasConflict
  /\ selectedId' = edConflict.conflictingRule.id
  /\ selectedId' # selectedId
  /\ EditorRenders(rules, edConflict.conflictingRule.id, FALSE)
  /\ UNCHANGED <<rules, nextId, clock, importCount, importVars, notStore>>

\* click on Delete: onDelete
DeleteRule ==
  /\ ~settingsOpen
  /\ Selected # NoRule
  /\ rules' = deleteRule(rules, Selected.id)
  /\ EditorRenders(rules', selectedId, TRUE)
  /\ UNCHANGED <<nextId, clock, importCount, selectedId, importVars, notStore>>

\* the settings dialog opens: SettingsView and ImportConflictDialog mount
OpenSettings ==
  /\ ~settingsOpen
  /\ settingsOpen' = TRUE
  /\ importConflicts' = <<>>
  /\ pendingImportRules' = <<>>
  /\ showConflictDialog' = FALSE
  /\ resolutions' = EmptyMap
  /\ UNCHANGED <<rules, nextId, clock, importCount, selectedId, editorVars, notStore>>

\* the settings dialog closes: its state is gone
CloseSettings ==
  /\ settingsOpen
  /\ ~showConflictDialog
  /\ settingsOpen' = FALSE
  /\ importConflicts' = <<>>
  /\ pendingImportRules' = <<>>
  /\ resolutions' = EmptyMap
  /\ UNCHANGED <<rules, nextId, clock, importCount, selectedId, editorVars,
                 showConflictDialog, notStore>>

\* a file is chosen in the import field: handleImport
HandleImport ==
  /\ settingsOpen
  /\ ~showConflictDialog
  /\ importCount < MaxImports
  /\ importCount' = importCount + 1
  /\ \E text \in ImportTexts :
       LET parsed == parseRulesFile(text) IN
       /\ parsed # Null
       /\ LET imported == [i \in DOMAIN parsed.rules |-> JsonRule(parsed.rules[i])]
              conflicts == detectImportConflicts(imported, rules)
          IN IF Len(conflicts) > 0
             THEN /\ importConflicts' = conflicts
                  /\ pendingImportRules' = imported
                  /\ showConflictDialog' = TRUE
                  /\ UNCHANGED <<rules, editorVars>>
             ELSE /\ Len(rules) + Len(imported) <= MaxRules
                  /\ rules' = rules \o imported
                  /\ EditorRenders(rules', selectedId, TRUE)
                  /\ UNCHANGED <<importConflicts, pendingImportRules, showConflictDialog>>
  /\ UNCHANGED <<nextId, clock, selectedId, settingsOpen, resolutions, notStore>>

\* updateResolution(ruleId, updates)
updateResolution(prev, ruleId, field, value) ==
  LET current == IF MapHas(prev, ruleId) THEN prev[ruleId]
                 ELSE [action |-> "skip", ruleId |-> ruleId, newCommand |-> <<>>]
  IN [prev EXCEPT ![ruleId] = [current EXCEPT ![field] = value]]

\* a radio button of a conflict is chosen
ChooseAction ==
  /\ showConflictDialog
  /\ \E i \in DOMAIN importConflicts, a \in {"skip", "overwrite", "rename"} :
        /\ resolutions' = updateResolution(resolutions, importConflicts[i].importedRule.id,
                                           "action", a)
        /\ resolutions' # resolutions
  /\ UNCHANGED <<rules, nextId, clock, importCount, selectedId, editorVars, settingsOpen,
                 importConflicts, pendingImportRules, showConflictDialog,
                 notStore>>

\* text is entered in the rename field of a conflict, shown under "rename"
TypeNewCommand ==
  /\ showConflictDialog
  /\ \E i \in DOMAIN importConflicts, c \in RenameTexts :
        LET id == importConflicts[i].importedRule.id IN
        /\ MapHas(resolutions, id)
        /\ resolutions[id].action = "rename"
        /\ resolutions' = updateResolution(resolutions, id, "newCommand", c)
        /\ resolutions' # resolutions
  /\ UNCHANGED <<rules, nextId, clock, importCount, selectedId, editorVars, settingsOpen,
                 importConflicts, pendingImportRules, showConflictDialog,
                 notStore>>

canResolve(map) ==
  \A id \in DOMAIN map :
     (MapHas(map, id) /\ map[id].action = "rename") => Len(Trim(map[id].newCommand)) > 0

\* click on "Apply": handleResolve, then handleConflictResolution
Resolve ==
  /\ showConflictDialog
  /\ canResolve(resolutions)
  /\ LET updatedRules == handleConflictResolution(rules, pendingImportRules,
                                                  resolutions, importConflicts)
     IN /\ Len(updatedRules) <= MaxRules
        /\ rules' = updatedRules
        /\ EditorRenders(updatedRules, selectedId, TRUE)
  /\ showConflictDialog' = FALSE
  /\ importConflicts' = <<>>
  /\ pendingImportRules' = <<>>
  /\ UNCHANGED <<nextId, clock, importCount, selectedId, settingsOpen, resolutions, notStore>>

\* click on "Cancel": handleCancelImport
CancelImport ==
  /\ showConflictDialog
  /\ showConflictDialog' = FALSE
  /\ importConflicts' = <<>>
  /\ pendingImportRules' = <<>>
  /\ UNCHANGED <<rules, nextId, clock, importCount, selectedId, editorVars, settingsOpen,
                 resolutions, notStore>>

\* what the dialog can hold for one conflict when "Apply" is enabled
ResolutionChoices(id) ==
  {NoEntry}
    \cup {[action |-> a, ruleId |-> id, newCommand |-> <<>>] : a \in {"skip", "overwrite"}}
    \cup {[action |-> "rename", ruleId |-> id, newCommand |-> c] : c \in RenameTexts \ {<<>>}}

\* the Maps the dialog can hand to onResolve
ResolutionMaps ==
  {m \in [ImportIds -> UNION {ResolutionChoices(id) : id \in ImportIds}] :
     \A id \in ImportIds : m[id] \in ResolutionChoices(id)}

\* one whole visit of the settings dialog that imports a file: handleImport
\* and, with conflicts, the choices made in the dialog and
\* handleConflictResolution.  Timers of the editor that fire during the
\* visit do not read what the dialog changes before its single write.
ImportRules ==
  /\ ~settingsOpen
  /\ importCount < MaxImports
  /\ importCount' = importCount + 1
  /\ \E text \in ImportTexts :
       LET parsed == parseRulesFile(text) IN
       /\ parsed # Null
       /\ LET imported == [i \in DOMAIN parsed.rules |-> JsonRule(parsed.rules[i])]
              conflicts == detectImportConflicts(imported, rules)
          IN IF Len(conflicts) > 0
             THEN \E map \in ResolutionMaps :
                     rules' = handleConflictResolution(rules, imported, map, conflicts)
             ELSE rules' = rules \o imported
  /\ Len(rules') <= MaxRules
  /\ rules' # rules
  /\ EditorRenders(rules', selectedId, TRUE)
  /\ UNCHANGED <<nextId, clock, selectedId, importVars, notStore>>

StoreIdle ==
  /\ rules = <<>>
  /\ nextId = 1
  /\ clock = 1
  /\ importCount = 0
  /\ selectedId = NoId
  /\ edKey = "new"
  /\ edCommand = <<>>
  /\ edText = <<>>
  /\ edErrors = <<>>
  /\ edConflict = NoConflict
  /\ edDebounce = FALSE
  /\ edTimers = <<>>
  /\ settingsOpen = FALSE
  /\ importConflicts = <<>>
  /\ pendingImportRules = <<>>
  /\ showConflictDialog = FALSE
  /\ resolutions = EmptyMap

-----------------------------------------------------------------------------
(* C5: commands are unique at write time: after any sequence of writes to    *)
(* the rule store (editor save, delete, import without conflicts, import     *)
(* resolved with skip / overwrite / rename) no two rules of the store have   *)
(* the same command compared case-insensitively.                             *)

UniqueCommands(rs) ==
  \A i, j \in DOMAIN rs :
     i # j => ToLowerCase(rs[i].command) # ToLowerCase(rs[j].command)

C5_CommandsUnique == UniqueCommands(rules)

-----------------------------------------------------------------------------
(* C9: the editor never saves a conflicting command: in every step in which  *)
(* handleSave calls onSave no conflict is flagged and no rule other than the *)
(* edited one has the saved command, compared case-insensitively; this also  *)
(* when Save is pressed before the debounced check has caught up.            *)

OnSaveCalled == clock' # clock

-----------------------------------------------------------------------------
(* C10: resolving import conflicts applies the chosen action to each         *)
(* conflicting imported rule: skip keeps the existing rule and does not add  *)
(* the imported one; overwrite removes the existing rule and adds the        *)
(* imported one; rename keeps the existing rule and adds the imported rule   *)
(* under the new command; imported rules without conflict are added          *)
(* unchanged and existing rules not involved in a conflict stay unchanged.   *)

Contains(rs, r) == \E i \in DOMAIN rs : rs[i] = r

Chosen(c, a) ==
  /\ MapHas(resolutions, c.importedRule.id)
  /\ resolutions[c.importedRule.id].action = a

Overwritten(r) ==
  \E i \in DOMAIN importConflicts :
     importConflicts[i].existingRule = r /\ Chosen(importConflicts[i], "overwrite")

\* a step of handleConflictResolution that changes the rule list
ResolutionApplied == showConflictDialog /\ ~showConflictDialog' /\ rules' # rules

C10_ResolutionApplied ==
  [][ResolutionApplied =>
       /\ \A i \in DOMAIN importConflicts :
            LET c == importConflicts[i] IN
            /\ Chosen(c, "skip") =>
                 /\ Overwritten(c.existingRule) \/ Contains(rules', c.existingRule)
                 /\ ~Contains(rules', c.importedRule)
            /\ Chosen(c, "overwrite") =>
                 /\ ~Contains(rules', c.existingRule)
                 /\ Contains(rules', c.importedRule)
            /\ Chosen(c, "rename") =>
                 /\ Overwritten(c.existingRule) \/ Contains(rules', c.existingRule)
                 /\ Contains(rules', [c.importedRule EXCEPT
                         !.command = resolutions[c.importedRule.id].newCommand])
       /\ \A i \in DOMAIN pendingImportRules :
            (\A j \in DOMAIN importConflicts :
                importConflicts[j].importedRule # pendingImportRules[i])
              => Contains(rules', pendingImportRules[i])
       /\ \A i \in DOMAIN rules :
            (\A j \in DOMAIN importConflicts :
                importConflicts[j].existingRule # rules[i])
              => Contains(rules', rules[i])]_vars

-----------------------------------------------------------------------------
(* Pause Coordinator (backend, spec sections 3, 4.4 and 6): the commands     *)
(* toggle_global_pause, set_pause_state and get_pause_state.                 *)

\* effective isPaused
EffectivePaused(byUser, bySecureInput, granted) == byUser \/ bySecureInput \/ ~granted

\* the flags after setPause(paused, byUser)
SetPause(flags, paused, byUser) ==
  IF byUser THEN [flags EXCEPT !.user = paused] ELSE [flags EXCEPT !.secure = paused]

\* the flags after togglePause()
TogglePauseFlags(flags) == [flags EXCEPT !.user = ~flags.user]

Flags == [user |-> pausedByUser, secure |-> pausedBySecureInput]

\* getPauseState(); the spec does not say how canResume is derived
PauseStateInfos(flags, granted) ==
  {[is_paused |-> EffectivePaused(flags.user, flags.secure, granted),
    paused_by_user |-> flags.user,
    paused_by_secure_input |-> flags.secure,
    can_resume |-> c] : c \in BOOLEAN}

CoordIdle ==
  /\ pausedByUser = FALSE
  /\ pausedBySecureInput = FALSE
  /\ permissionGranted = TRUE
  /\ secureInput = FALSE

-----------------------------------------------------------------------------
(* state/pause-toggle-store.tsx: PauseToggleProvider.  Each invoke is a      *)
(* command put on the way to the backend; the backend handles the commands   *)
(* in the order they were sent; the promise of a command resolves when its   *)
(* response arrives, and responses arrive in any order.  pauseTimestamp is   *)
(* display data and is left out.                                             *)

MaxInFlight == 3   \* most commands and responses under way at once

Call(cmd, args, from) == [cmd |-> cmd, args |-> args, from |-> from]
NoArgs == [none |-> TRUE]

\* a user request sent as if it were the automatic signal
UserCallAsSignal == FALSE

\* the byUser argument of the commands sent for the user
UserCallByUser == TRUE

\* a secure-input signal sent as if it were a user request
SecureCallAsUser == TRUE

\* the byUser argument of the command sent for the secure-input signal
SecureCallByUser == FALSE

mapPauseReason(byUser, bySecureInput) ==
  IF byUser /\ bySecureInput THEN "both"
  ELSE IF byUser THEN "user"
  ELSE IF bySecureInput THEN "secure-input"
  ELSE "none"

InFlight == Len(calls) + Len(responses)

\* invoke('get_pause_state') of refreshPauseState
RefreshCall == Call("get_pause_state", NoArgs, "refreshPauseState")

PauseInit ==
  /\ pausedByUser \in BOOLEAN          \* restored at startup
  /\ pausedBySecureInput = FALSE
  /\ permissionGranted = TRUE
  /\ secureInput = FALSE
  /\ calls = <<RefreshCall>>           \* the refresh of the mount effect
  /\ responses = <<>>
  /\ isPaused = FALSE
  /\ pauseReason = "none"
  /\ canResume = TRUE
  /\ lastUser = pausedByUser
  /\ lastSecure = FALSE

\* togglePause, up to its await
TogglePause ==
  /\ InFlight < MaxInFlight
  /\ calls' = Append(calls, Call("toggle_global_pause", NoArgs, "togglePause"))
  /\ UNCHANGED <<responses, isPaused, pauseReason, canResume, lastUser, lastSecure,
                 coordVars, notPause>>

\* pauseExpansions, up to its await
PauseExpansions ==
  /\ InFlight < MaxInFlight
  /\ calls' = Append(calls, Call("set_pause_state",
                                 [paused |-> TRUE, byUser |-> UserCallByUser],
                                 "pauseExpansions"))
  /\ UNCHANGED <<responses, isPaused, pauseReason, canResume, lastUser, lastSecure,
                 coordVars, notPause>>

\* resumeExpansions, up to its first await
ResumeExpansions ==
  /\ InFlight < MaxInFlight
  /\ calls' = Append(calls, Call("set_pause_state",
                                 [paused |-> FALSE, byUser |-> UserCallByUser],
                                 "resumeExpansions"))
  /\ UNCHANGED <<responses, isPaused, pauseReason, canResume, lastUser, lastSecure,
                 coordVars, notPause>>

\* the Monitor reports a change of the secure-input context with the event
\* secure-input-detected; the listener of the store sends set_pause_state
SecureInputDetected ==
  /\ InFlight < MaxInFlight
  /\ \E detected \in BOOLEAN :
        /\ detected # secureInput
        /\ secureInput' = detected
        /\ calls' = Append(calls, Call("set_pause_state",
                                       [paused |-> detected, byUser |-> SecureCallByUser],
                                       "secureInputListener"))
  /\ UNCHANGED <<responses, isPaused, pauseReason, canResume, lastUser, lastSecure,
                 pausedByUser, pausedBySecureInput, permissionGranted, notPause>>

\* who asked for the command: the user, or the secure-input signal
FromUser(c) == c.from \in {"togglePause", "pauseExpansions", "resumeExpansions"}
FromSecureInput(c) == c.from = "secureInputListener"

\* the backend handles the oldest command and answers it
BackendHandles ==
  /\ calls # <<>>
  /\ calls' = Tail(calls)
  /\ LET c == Head(calls) IN
     CASE c.cmd = "toggle_global_pause" ->
            LET f == TogglePauseFlags(Flags) IN
            /\ pausedByUser' = f.user
            /\ pausedBySecureInput' = f.secure
            /\ responses' = Append(responses,
                 [from |-> c.from,
                  value |-> [newState |->
                               EffectivePaused(f.user, f.secure, permissionGranted)]])
            /\ lastUser' = ~lastUser
            /\ lastSecure' = lastSecure
       [] c.cmd = "set_pause_state" ->
            LET f == SetPause(Flags, c.args.paused, c.args.byUser) IN
            /\ pausedByUser' = f.user
            /\ pausedBySecureInput' = f.secure
            /\ responses' = Append(responses, [from |-> c.from, value |-> NoArgs])
            /\ lastUser' = IF FromUser(c) THEN c.args.paused ELSE lastUser
            /\ lastSecure' = IF FromSecureInput(c) THEN c.args.paused ELSE lastSecure
       [] c.cmd = "get_pause_state" ->
            /\ \E info \in PauseStateInfos(Flags, permissionGranted) :
                  responses' = Append(responses, [from |-> c.from, value |-> info])
            /\ UNCHANGED <<pausedByUser, pausedBySecureInput, lastUser, lastSecure>>
  /\ UNCHANGED <<isPaused, pauseReason, canResume, permissionGranted, secureInput,
                 notPause>>

\* SubSeq without element i
RemoveAt(q, i) == SubSeq(q, 1, i - 1) \o SubSeq(q, i + 1, Len(q))

\* a response arrives and the code after the await runs
ResponseArrives ==
  /\ \E i \in DOMAIN responses :
       LET r == responses[i] IN
       /\ responses' = RemoveAt(responses, i)
       /\ CASE r.from = "togglePause" ->
                 /\ isPaused' = r.value.newState
                 /\ pauseReason' = IF r.value.newState THEN "user" ELSE "none"
                 /\ canResume' = TRUE
                 /\ calls' = calls
            [] r.from = "pauseExpansions" ->
                 /\ isPaused' = TRUE
                 /\ pauseReason' = IF pauseReason = "secure-input" THEN "both" ELSE "user"
                 /\ canResume' = TRUE
                 /\ calls' = calls
            [] r.from \in {"resumeExpansions", "secureInputListener"} ->
                 /\ calls' = Append(calls, RefreshCall)
                 /\ UNCHANGED <<isPaused, pauseReason, canResume>>
            [] r.from = "refreshPauseState" ->
                 /\ isPaused' = r.value.is_paused
                 /\ pauseReason' = mapPauseReason(r.value.paused_by_user,
                                                  r.value.paused_by_secure_input)
                 /\ canResume' = r.value.can_resume
                 /\ calls' = calls
  /\ UNCHANGED <<lastUser, lastSecure, coordVars, notPause>>

PauseIdle ==
  /\ calls = <<>>
  /\ responses = <<>>
  /\ isPaused = FALSE
  /\ pauseReason = "none"
  /\ canResume = TRUE
  /\ lastUser = FALSE
  /\ lastSecure = FALSE

-----------------------------------------------------------------------------
(* Expansion engine (backend, spec sections 4.1 to 4.3): Keystroke Monitor,  *)
(* Match Buffer and Injector.  An event is a printable character, a          *)
(* backspace, or a change of cursor or focus; the characters are the         *)
(* sentinel, letters, and delimiters.  The sentinel inside a token violates  *)
(* the character set.  Dry-run mode performs no injection and is left out.   *)

MaxBuffer == 4       \* max length of the match buffer, sentinel included
MaxExpansions == 2   \* expansions in one run

Sentinel == "."
TokenChars == {"a", "b", "A"}
Delimiters == {" ", ","}

KeyEvent(ch, synthetic) == [kind |-> "char", ch |-> ch, synthetic |-> synthetic]
Backspace(synthetic) == [kind |-> "backspace", ch |-> "", synthetic |-> synthetic]
FocusChange == [kind |-> "focus", ch |-> "", synthetic |-> FALSE]
NoEvent == [kind |-> "none", ch |-> "", synthetic |-> FALSE]

PhysicalEvents ==
  {KeyEvent(ch, FALSE) : ch \in {Sentinel} \cup TokenChars \cup Delimiters}
    \cup {Backspace(FALSE), FocusChange}

\* the rule table of the engine: normalized command -> replacement text; the
\* replacement holds the command itself followed by a delimiter
TableCommands == {<<".", "a", "b">>}
Replacement(command) == <<".", "a", "b", " ">>

\* a lookup that also accepts the beginning of a command
MatchesPrefix(buf, command) == StartsWith(command, ToLowerCase(buf))

\* exact equality after normalization
Matches(buf, command) == ToLowerCase(buf) = command

\* the events the Injector synthesizes: one deletion per typed character,
\* then the replacement text
Synthesized(typed, command) ==
  [i \in 1..Len(typed) |-> Backspace(TRUE)]
    \o [i \in 1..Len(Replacement(command)) |-> KeyEvent(Replacement(command)[i], TRUE)]

\* events that never reach the buffer
NeverBypassed(raised) == FALSE

\* while the guard is raised every observed event bypasses buffer and matcher
Bypassed(raised) == raised

\* the pause check, first predicate evaluated per event
Inert == EffectivePaused(pausedByUser, pausedBySecureInput, permissionGranted) \/ secureInput

\* the Match Buffer after an event that is not the end of a matching token
BufferAfter(buf, e) ==
  CASE e.kind = "focus" -> <<>>
    [] e.kind = "backspace" -> IF buf = <<>> THEN <<>> ELSE SubSeq(buf, 1, Len(buf) - 1)
    [] e.kind = "char" /\ e.ch \in Delimiters -> <<>>
    [] e.kind = "char" /\ e.ch = Sentinel -> IF buf = <<>> THEN <<Sentinel>> ELSE <<>>
    [] e.kind = "char" /\ e.ch \in TokenChars ->
         IF buf = <<>> THEN <<>>
         ELSE IF Len(buf) < MaxBuffer THEN Append(buf, e.ch)
         ELSE <<>>

\* the rule the buffer matches when the event is a delimiter
MatchedCommands(buf, e) ==
  IF e.kind = "char" /\ e.ch \in Delimiters
  THEN {c \in TableCommands : Matches(buf, c)}
  ELSE {}

\* the Monitor observes event e; rest is what remains of the synthesized events
Observe(e, rest) ==
  /\ lastEvent' = e
  /\ IF Bypassed(guard)
     THEN /\ synthQueue' = rest
          /\ UNCHANGED <<buffer, guard, expansions>>
     ELSE IF Inert
     THEN /\ buffer' = <<>>
          /\ synthQueue' = rest
          /\ UNCHANGED <<guard, expansions>>
     ELSE IF MatchedCommands(buffer, e) # {}
     THEN /\ expansions < MaxExpansions
          /\ \E c \in MatchedCommands(buffer, e) :
                synthQueue' = rest \o Synthesized(buffer, c)
          /\ guard' = TRUE
          /\ buffer' = <<>>
          /\ expansions' = expansions + 1
     ELSE /\ buffer' = BufferAfter(buffer, e)
          /\ synthQueue' = rest
          /\ UNCHANGED <<guard, expansions>>

\* a key is pressed, or cursor or focus changes
PhysicalEvent ==
  /\ \E e \in PhysicalEvents : Observe(e, synthQueue)
  /\ UNCHANGED <<coordVars, notEngine>>

\* the Monitor sees the next synthesized event
SyntheticEvent ==
  /\ synthQueue # <<>>
  /\ Observe(Head(synthQueue), Tail(synthQueue))
  /\ UNCHANGED <<coordVars, notEngine>>

\* the Injector lowers the guard after the last synthesized event is flushed
LowerGuard ==
  /\ guard
  /\ synthQueue = <<>>
  /\ guard' = FALSE
  /\ UNCHANGED <<buffer, synthQueue, lastEvent, expansions, coordVars, notEngine>>

\* setUserPause(paused)
SetUserPause ==
  /\ \E paused \in BOOLEAN :
        /\ paused # pausedByUser
        /\ pausedByUser' = SetPause(Flags, paused, TRUE).user
        /\ pausedBySecureInput' = SetPause(Flags, paused, TRUE).secure
  /\ buffer' = <<>>
  /\ UNCHANGED <<permissionGranted, secureInput, guard, synthQueue, lastEvent,
                 expansions, notEngine>>

\* the Monitor detects a change of the secure-input context and reports it
\* with setSecureInputPause; the report is best effort and may be lost
SecureInputChanges ==
  /\ \E detected \in BOOLEAN, reported \in BOOLEAN :
        /\ detected # secureInput
        /\ secureInput' = detected
        /\ pausedBySecureInput' =
             IF reported THEN SetPause(Flags, detected, FALSE).secure
             ELSE pausedBySecureInput
        /\ pausedByUser' =
             IF reported THEN SetPause(Flags, detected, FALSE).user ELSE pausedByUser
  /\ buffer' = <<>>
  /\ UNCHANGED <<permissionGranted, guard, synthQueue, lastEvent, expansions, notEngine>>

\* onPermissionRevoked(), and the permission coming back
PermissionChanges ==
  /\ permissionGranted' = ~permissionGranted
  /\ buffer' = <<>>
  /\ UNCHANGED <<pausedByUser, pausedBySecureInput, secureInput, guard, synthQueue,
                 lastEvent, expansions, notEngine>>

EngineInit ==
  /\ pausedByUser \in BOOLEAN
  /\ pausedBySecureInput = FALSE
  /\ permissionGranted \in BOOLEAN
  /\ secureInput = FALSE
  /\ buffer = <<>>
  /\ guard = FALSE
  /\ synthQueue = <<>>
  /\ lastEvent = NoEvent
  /\ expansions = 0

EngineIdle ==
  /\ buffer = <<>>
  /\ guard = FALSE
  /\ synthQueue = <<>>
  /\ lastEvent = NoEvent
  /\ expansions = 0

-----------------------------------------------------------------------------
(* C1: for any sequence of user pause/resume requests (toggle_global_pause,  *)
(* set_pause_state with byUser = true) and secure-input signals              *)
(* (set_pause_state with byUser = false) the effective isPaused equals       *)
(* (last pausedByUser) OR (last pausedBySecureInput), and a request that     *)
(* changes one of the two flags never changes the other.                     *)

\* a step in which the backend handles a command
Handled == calls # <<>> /\ calls' = Tail(calls) /\ Len(responses') = Len(responses) + 1

C1_PauseInvariant ==
  /\ [](EffectivePaused(pausedByUser, pausedBySecureInput, permissionGranted)
          = (lastUser \/ lastSecure))
  /\ [][Handled =>
          /\ FromUser(Head(calls)) => pausedBySecureInput' = pausedBySecureInput
          /\ FromSecureInput(Head(calls)) => pausedByUser' = pausedByUser]_vars

\* the store has shown a pause by both sources; the secure-input context
\* has ended and the backend has handled that signal; the pause asked for
\* by the user is still in force
C1_Witness ==
  /\ calls = <<>>
  /\ \E i \in DOMAIN responses : responses[i].from = "secureInputListener"
  /\ pauseReason = "both"
  /\ lastUser /\ pausedByUser
  /\ ~lastSecure /\ ~pausedBySecureInput /\ ~secureInput

-----------------------------------------------------------------------------
(* C2: when secure input is detected, pausedBySecureInput becomes true;      *)
(* when it ends, pausedBySecureInput clears and, if pausedByUser is false,   *)
(* the effective isPaused becomes false; the signal is always sent with      *)
(* byUser = false and never alters pausedByUser.                             *)

C2_SecureInputSignal ==
  /\ [][(Handled /\ FromSecureInput(Head(calls))) =>
          /\ Head(calls).args.byUser = FALSE
          /\ pausedBySecureInput' = Head(calls).args.paused
          /\ pausedByUser' = pausedByUser
          /\ (~Head(calls).args.paused /\ ~pausedByUser) =>
                ~EffectivePaused(pausedByUser', pausedBySecureInput', permissionGranted')]_vars
  /\ (secureInput ~> pausedBySecureInput)
  /\ (~secureInput ~> ~pausedBySecureInput)

\* the store shows the pause of a secure-input context; the context has
\* ended, the backend has handled the signal, and nothing is paused there
C2_Witness ==
  /\ calls = <<>>
  /\ \E i \in DOMAIN responses : responses[i].from = "secureInputListener"
  /\ isPaused /\ pauseReason = "secure-input"
  /\ ~secureInput /\ ~pausedBySecureInput /\ ~pausedByUser
  /\ ~EffectivePaused(pausedByUser, pausedBySecureInput, permissionGranted)

-----------------------------------------------------------------------------
(* C3: an expansion fires only in a state where the engine is not paused,    *)
(* no secure-input context is active, the buffer equals a command of the     *)
(* rule table exactly (no prefix, superstring or fuzzy match), and the next  *)
(* character is a delimiter.                                                 *)

ExpansionFires == expansions' # expansions

C3_ExpansionOnlyOnExactMatch ==
  [][ExpansionFires =>
       /\ ~EffectivePaused(pausedByUser, pausedBySecureInput, permissionGranted)
       /\ ~secureInput
       /\ ToLowerCase(buffer) \in TableCommands
       /\ lastEvent'.kind = "char"
       /\ lastEvent'.ch \in Delimiters]_vars

\* an expansion has fired on a token typed in capitals
C3_Witness ==
  /\ expansions > 0
  /\ guard
  /\ Len(synthQueue) = Len(<<".", "A", "B">>) + Len(Replacement(<<".", "a", "b">>))
  /\ lastEvent = KeyEvent(",", FALSE)

-----------------------------------------------------------------------------
(* C4: while the synthetic-input guard is raised every observed event        *)
(* bypasses buffer and matcher, so injecting replacement text that itself    *)
(* contains a valid command followed by a delimiter never triggers a         *)
(* secondary expansion.                                                      *)

C4_NoSecondaryExpansion ==
  [][guard => (buffer' = buffer /\ expansions' = expansions)]_vars

\* the whole replacement, a command and a delimiter, has been observed
\* under the guard
C4_Witness ==
  /\ guard
  /\ synthQueue = <<>>
  /\ lastEvent = KeyEvent(" ", TRUE)
  /\ expansions = 1

-----------------------------------------------------------------------------
(* lib/conflict-utils.ts: generateCommandSuggestions with its module-level   *)
(* memoization cache, and detectImportConflicts with the suggestions it      *)
(* asks for.                                                                 *)

MaxSuggestions == 5        \* suggestions.length < 5
MinSuggestionLength == 4   \* suggestion.length >= 4, abbrev.length >= 4
MinAbbreviatedLength == 4  \* baseWithoutDot.length > 4
MaxCacheSize == 100        \* suggestionCache.size > 100

DigitChars == <<"0","1","2","3","4","5","6","7","8","9">>

\* the characters in ascending order of their UTF-16 code units
CodeOrder ==
  <<",", ".">> \o DigitChars \o <<":">> \o UpperLetters \o <<"_">> \o LowerLetters

CodeUnit(c) == CHOOSE i \in DOMAIN CodeOrder : CodeOrder[i] = c

\* a < b as Array.prototype.sort compares strings without a comparator
StrLess(a, b) ==
  \E k \in 1..(Len(a) + 1) :
    /\ k <= Len(b)
    /\ SubSeq(a, 1, k - 1) = SubSeq(b, 1, k - 1)
    /\ k = Len(a) + 1 \/ CodeUnit(a[k]) < CodeUnit(b[k])

RECURSIVE SortStrings(_)
\* existingCommands.sort()
SortStrings(s) ==
  IF s = <<>> THEN <<>>
  ELSE LET m == CHOOSE i \in DOMAIN s : \A j \in DOMAIN s : ~StrLess(s[j], s[i])
       IN <<s[m]>> \o SortStrings(RemoveAt(s, m))

RECURSIVE Join(_, _)
\* Array.prototype.join
Join(s, sep) ==
  IF s = <<>> THEN <<>>
  ELSE IF Len(s) = 1 THEN s[1]
  ELSE s[1] \o sep \o Join(Tail(s), sep)

\* `${baseCommand}:${existingCommands.sort().join(',')}`
CacheKey(baseCommand, existingCommands) ==
  baseCommand \o <<":">> \o Join(SortStrings(existingCommands), <<",">>)

\* synonymMap[baseWithoutDot.toLowerCase()] || []
synonymMap(w) ==
  CASE w = <<"s","i","g">> -> << <<"s","i","g","n","a","t","u","r","e">>, <<"s","i","g","n">> >>
    [] w = <<"s","i","g","n","a","t","u","r","e">> -> << <<"s","i","g">>, <<"s","i","g","n">> >>
    [] w = <<"m","e","e","t","i","n","g">> -> << <<"m","e","e","t">>, <<"m","t","g">> >>
    [] w = <<"a","d","d","r","e","s","s">> -> << <<"a","d","d","r">>, <<"l","o","c","a","t","i","o","n">> >>
    [] w = <<"p","h","o","n","e">> -> << <<"t","e","l">>, <<"m","o","b","i","l","e">> >>
    [] w = <<"e","m","a","i","l">> -> << <<"m","a","i","l">>, <<"c","o","n","t","a","c","t">> >>
    [] w = <<"t","h","a","n","k","s">> -> << <<"t","h","x">>, <<"t","y">> >>
    [] w = <<"r","e","g","a","r","d","s">> -> << <<"r","g","d","s">>, <<"b","e","s","t">> >>
    [] OTHER -> <<>>

descriptiveSuffixes ==
  << <<"_","n","e","w">>, <<"_","a","l","t">>, <<"_","w","o","r","k">>,
     <<"_","p","e","r","s","o","n","a","l">>, <<"_","t","e","m","p">> >>

\* `${i}` for i in 2..10
Numeral(i) == IF i < 10 THEN <<DigitChars[i + 1]>> ELSE <<"1", "0">>

\* String.prototype.slice(0, n)
SliceTo(w, n) == SubSeq(w, 1, IF n < Len(w) THEN n ELSE Len(w))

\* addSuggestion: pushes the suggestion unless it is an existing command
\* (case-insensitively), five are already there, or it is there already
addSuggestion(suggestions, existingSet, suggestion) ==
  IF /\ ToLowerCase(suggestion) \notin existingSet
     /\ Len(suggestions) < MaxSuggestions
     /\ suggestion \notin Range(suggestions)
  THEN Append(suggestions, suggestion)
  ELSE suggestions

RECURSIVE AddSuggestions(_, _, _)
AddSuggestions(suggestions, existingSet, candidates) ==
  IF candidates = <<>> THEN suggestions
  ELSE AddSuggestions(addSuggestion(suggestions, existingSet, Head(candidates)),
                      existingSet, Tail(candidates))

\* the strings handed to addSuggestion by the four strategies, in order
SuggestionCandidates(baseCommand) ==
  LET baseWithoutDot == Tail(baseCommand)
      synonyms == synonymMap(ToLowerCase(baseWithoutDot))
      longEnough(w) == Len(w) >= MinSuggestionLength
      strategy1 == SelectSeq([i \in DOMAIN synonyms |-> <<".">> \o synonyms[i]], longEnough)
      strategy2 == [i \in DOMAIN descriptiveSuffixes |->
                      <<".">> \o baseWithoutDot \o descriptiveSuffixes[i]]
      strategy3 == IF Len(baseWithoutDot) > MinAbbreviatedLength
                   THEN SelectSeq(<< <<".">> \o SliceTo(baseWithoutDot, 3),
                                     <<".">> \o SliceTo(baseWithoutDot, 4) >>, longEnough)
                   ELSE <<>>
      strategy4 == [i \in 1..9 |-> <<".">> \o baseWithoutDot \o Numeral(i + 1)]
  IN strategy1 \o strategy2 \o strategy3 \o strategy4

EmptyCache == [k \in {} |-> <<>>]

\* the value returned and the cache left behind
generateCommandSuggestions(baseCommand, existingCommands, cache) ==
  IF baseCommand = <<>> \/ ~StartsWith(baseCommand, <<".">>)
  THEN [result |-> <<>>, cache |-> cache]
  ELSE LET cacheKey == CacheKey(baseCommand, existingCommands) IN
       IF cacheKey \in DOMAIN cache
       THEN [result |-> cache[cacheKey], cache |-> cache]
       ELSE LET existingSet == {ToLowerCase(existingCommands[i]) : i \in DOMAIN existingCommands}
                suggestions == AddSuggestions(<<>>, existingSet, SuggestionCandidates(baseCommand))
                result == SubSeq(suggestions, 1, IF Len(suggestions) < MaxSuggestions
                                                 THEN Len(suggestions) ELSE MaxSuggestions)
                kept == IF Cardinality(DOMAIN cache) > MaxCacheSize THEN EmptyCache ELSE cache
            IN [result |-> result, cache |-> (cacheKey :> result) @@ kept]

RECURSIVE SuggestEach(_, _, _)
\* detectImportConflicts: the suggestions asked for each conflicting imported
\* rule in turn
SuggestEach(hits, allCommands, cache) ==
  IF hits = <<>> THEN [alternatives |-> <<>>, cache |-> cache]
  ELSE LET g == generateCommandSuggestions(Head(hits).command, allCommands, cache)
           rest == SuggestEach(Tail(hits), allCommands, g.cache)
       IN [alternatives |-> <<g.result>> \o rest.alternatives, cache |-> rest.cache]

\* the calls made on the two functions
MaxCached == 1             \* most entries of the cache

SugSignature == <<".","s","i","g","n","a","t","u","r","e">>
SugSign == <<".","s","i","g","n">>
SugWork == <<".","w","o","r","k">>

SuggestBases == {<<>>, Tail(CmdSig), CmdSig, SugSignature}

\* command lists of a store; an imported rule is not validated, so a command
\* of the store may hold any character
SuggestExisting ==
  { <<>>, <<CmdSig>>, <<SugSignature>>,
    <<SugSign \o <<",">> \o SugWork, CmdSig>>,
    <<SugWork, SugSign, CmdSig>> }

DetectExisting ==
  { <<Rule("e1", CmdAlpha, <<"t">>, 0, 0), Rule("e2", CmdBetaUpper, <<"t">>, 0, 0)>>,
    <<Rule("e1", CmdAlpha, <<"t">>, 0, 0), Rule("e2", CmdAlphaUpper, <<"t">>, 0, 0)>> }

DetectImportedPool ==
  { Rule("i1", CmdAlphaUpper, <<"i">>, 0, 0), Rule("i2", CmdBeta, <<"i">>, 0, 0),
    Rule("i3", CmdGamma, <<"i">>, 0, 0) }

DetectImported == StringsUpTo(DetectImportedPool, 2)

NoCall == [fn |-> "none"]

SuggestInit ==
  /\ suggestionCache = EmptyCache
  /\ lastCall = NoCall

GenerateCommandSuggestions ==
  \E baseCommand \in SuggestBases, existingCommands \in SuggestExisting :
    LET g == generateCommandSuggestions(baseCommand, existingCommands, suggestionCache) IN
    /\ Cardinality(DOMAIN g.cache) <= MaxCached
    /\ suggestionCache' = g.cache
    /\ lastCall' = [fn |-> "generateCommandSuggestions", baseCommand |-> baseCommand,
                    existingCommands |-> existingCommands, result |-> g.result]
    /\ UNCHANGED notSuggest

DetectImportConflicts ==
  \E importedRules \in DetectImported, existingRules \in DetectExisting :
    LET conflicts == detectImportConflicts(importedRules, existingRules)
        allCommands == [i \in DOMAIN existingRules |-> existingRules[i].command]
                         \o [i \in DOMAIN importedRules |-> importedRules[i].command]
        s == SuggestEach([i \in DOMAIN conflicts |-> conflicts[i].importedRule],
                         allCommands, suggestionCache)
    IN /\ Cardinality(DOMAIN s.cache) <= MaxCached
       /\ suggestionCache' = s.cache
       /\ lastCall' = [fn |-> "detectImportConflicts", importedRules |-> importedRules,
                       existingRules |-> existingRules,
                       conflicts |-> [i \in DOMAIN conflicts |->
                                        [importedRule |-> conflicts[i].importedRule,
                                         existingRule |-> conflicts[i].existingRule,
                                         suggestedAlternatives |-> s.alternatives[i]]]]
       /\ UNCHANGED notSuggest

SuggestIdle == SuggestInit

-----------------------------------------------------------------------------
(* C11: detectImportConflicts returns exactly one conflict item for each     *)
(* imported rule whose command equals, case-insensitively, the command of    *)
(* an existing rule, in the order of the imported rules and paired with an   *)
(* existing rule of that command, and no item for any other imported rule.   *)

SameCommand(a, b) == ToLowerCase(a.command) = ToLowerCase(b.command)

ConflictingPositions(importedRules, existingRules) ==
  {i \in DOMAIN importedRules :
     \E j \in DOMAIN existingRules : SameCommand(importedRules[i], existingRules[j])}

C11_OneItemPerConflict ==
  lastCall.fn = "detectImportConflicts" =>
    LET imp == lastCall.importedRules
        ex == lastCall.existingRules
        c == lastCall.conflicts
        pos == ConflictingPositions(imp, ex)
    IN /\ Len(c) = Cardinality(pos)
       /\ \A k \in DOMAIN c :
            LET i == CHOOSE n \in pos : Cardinality({m \in pos : m < n}) = k - 1 IN
            /\ c[k].importedRule = imp[i]
            /\ \E j \in DOMAIN ex :
                 c[k].existingRule = ex[j] /\ SameCommand(imp[i], ex[j])

\* two rules imported, one of them in conflict with an existing rule whose
\* command differs from its own in case only
C11_Witness ==
  /\ lastCall.fn = "detectImportConflicts"
  /\ Len(lastCall.importedRules) = 2
  /\ Len(lastCall.conflicts) = 1
  /\ lastCall.conflicts[1].importedRule.command # lastCall.conflicts[1].existingRule.command
  /\ lastCall.conflicts[1].importedRule = lastCall.importedRules[2]

-----------------------------------------------------------------------------
(* C12: generateCommandSuggestions returns at most 5 suggestions, pairwise   *)
(* distinct, none of which equals an existing command compared               *)
(* case-insensitively, and the empty list when the base command is empty or  *)
(* does not start with "."; also when the answer comes from the cache.       *)

C12_SuggestionsFresh ==
  lastCall.fn = "generateCommandSuggestions" =>
    LET r == lastCall.result
        ex == lastCall.existingCommands
    IN /\ Len(r) <= 5
       /\ \A i, j \in DOMAIN r : i # j => r[i] # r[j]
       /\ \A i \in DOMAIN r, j \in DOMAIN ex : ToLowerCase(r[i]) # ToLowerCase(ex[j])
       /\ (lastCall.baseCommand = <<>> \/ Head(lastCall.baseCommand) # ".") => r = <<>>

-----------------------------------------------------------------------------
(* C13: every string returned by generateCommandSuggestions passes the       *)
(* command format rules of validateRule: it starts with ".", is 5 to 50      *)
(* characters long, has only letters, digits and underscores after the       *)
(* period, and no doubled, leading or trailing underscore.                   *)

FollowsNamingRules(s) ==
  /\ StartsWith(s, <<".">>)
  /\ Len(s) >= 5 /\ Len(s) <= 50
  /\ MatchesCommandPattern(s)
  /\ ~HasDoubleUnderscore(s)
  /\ ~HasEdgeUnderscore(s)

C13_SuggestionsWellFormed ==
  lastCall.fn = "generateCommandSuggestions" =>
    \A i \in DOMAIN lastCall.result : FollowsNamingRules(lastCall.result[i])

-----------------------------------------------------------------------------
(* lib/storage.ts: serializeRules and the text it writes.  The text is kept  *)
(* as the payload with every string as the characters JSON.stringify writes  *)
(* between the quotes; the indentation asked for (2) is white space between  *)
(* tokens, which JSON.parse skips.  Ids and timestamps are written with      *)
(* characters that need no escape.                                           *)

\* JSON.stringify on one character of a string
JsonQuoteChar(c) ==
  CASE c = "\"" -> <<"\\", "\"">>
    [] c = "\\" -> <<"\\", "\\">>
    [] c = "\n" -> <<"\\", "n">>
    [] c = "NUL" -> <<"\\", "u", "0", "0", "0", "0">>
    [] OTHER -> <<c>>

\* a writer that copies the characters as they are
JsonQuoteRaw(w) == w

RECURSIVE JsonQuote(_)
\* JSON.stringify on a string, without the enclosing quotes
JsonQuote(w) ==
  IF w = <<>> THEN <<>> ELSE JsonQuoteChar(Head(w)) \o JsonQuote(Tail(w))

BadLiteral == [ok |-> FALSE, chars |-> <<>>]
Decoded(c, rest) == [ok |-> rest.ok, chars |-> IF rest.ok THEN <<c>> \o rest.chars ELSE <<>>]

RECURSIVE JsonUnquote(_)
\* JSON.parse on the characters between the quotes of a string literal: a
\* bare quote, a bare control character or an unknown escape is a SyntaxError
JsonUnquote(lit) ==
  IF lit = <<>> THEN [ok |-> TRUE, chars |-> <<>>]
  ELSE LET c == Head(lit) IN
       IF c \in {"\"", "\n", "NUL"} THEN BadLiteral
       ELSE IF c # "\\" THEN Decoded(c, JsonUnquote(Tail(lit)))
       ELSE IF Len(lit) < 2 THEN BadLiteral
       ELSE IF lit[2] \in {"\"", "\\"}
            THEN Decoded(lit[2], JsonUnquote(SubSeq(lit, 3, Len(lit))))
       ELSE IF lit[2] = "n"
            THEN Decoded("\n", JsonUnquote(SubSeq(lit, 3, Len(lit))))
       ELSE IF lit[2] = "u" /\ Len(lit) >= 6 /\ SubSeq(lit, 3, 6) = <<"0", "0", "0", "0">>
            THEN Decoded("NUL", JsonUnquote(SubSeq(lit, 7, Len(lit))))
       ELSE BadLiteral

\* JSON.stringify({ version: RULES_VERSION, rules }, null, 2)
serializeRules(rs) ==
  [version |-> RULES_VERSION,
   rules |-> [i \in DOMAIN rs |->
                [id |-> rs[i].id,
                 command |-> JsonQuote(rs[i].command),
                 replacementText |-> JsonQuote(rs[i].replacementText),
                 createdAt |-> rs[i].createdAt,
                 updatedAt |-> rs[i].updatedAt]]]

\* the written text as JSON.parse reads it
ReadText(written) ==
  LET w == written.rules
      readable == \A i \in DOMAIN w :
                    JsonUnquote(w[i].command).ok /\ JsonUnquote(w[i].replacementText).ok
  IN IF ~readable THEN NotJson(<<"\"">>)
     ELSE RulesDocument(written.version,
            [i \in DOMAIN w |->
               Rule(w[i].id, JsonUnquote(w[i].command).chars,
                    JsonUnquote(w[i].replacementText).chars,
                    w[i].createdAt, w[i].updatedAt)])

\* parseRulesFile(text) with its items used as rules
ReadRules(written) ==
  LET r == parseRulesFile(ReadText(written)) IN
  IF r.t = "rules" THEN RulesResult([i \in DOMAIN r.rules |-> JsonRule(r.rules[i])]) ELSE r

MaxExport == 2             \* most rules in an exported list

ExportTexts ==
  { <<"B","e","s","t",",","\n","Y","o","u","r"," ","N","a","m","e">>,
    <<"a">>, <<"\"">>, <<"\\", "n">>, <<"\n", "NUL">>, <<"\\", "\"", "\\">> }

ExportRulePool ==
  {Rule("x1", CmdSig, t, 1, 2) : t \in ExportTexts}
    \cup {Rule("x2", CmdAlphaUpper, t, 3, 3) : t \in ExportTexts}

ExportLists == StringsUpTo(ExportRulePool, MaxExport)

ExportInit ==
  /\ xRules = <<>>
  /\ xText = NotRun
  /\ xResult = NotRun

\* export of the rule list and import of the text written
ExportThenParse ==
  \E rs \in ExportLists :
    /\ xRules' = rs
    /\ xText' = serializeRules(rs)
    /\ xResult' = ReadRules(serializeRules(rs))
    /\ UNCHANGED notExport

ExportIdle == ExportInit

-----------------------------------------------------------------------------
(* C20: export and import are inverse: for every rule list R,                *)
(* parseRulesFile(serializeRules(R)) is a list equal to R, with the same     *)
(* rules in the same order and the same ids, commands, replacement texts     *)
(* and timestamps.                                                           *)

C20_ExportImportRoundTrip ==
  xResult # NotRun => xResult = RulesResult(xRules)

\* two rules read back, the first with a backslash and a quote in its text,
\* the second with a line break and U+0000
C20_Witness ==
  /\ xResult # NotRun
  /\ Len(xRules) = 2
  /\ xResult.t = "rules"
  /\ xResult.rules[1].replacementText = <<"\\", "\"", "\\">>
  /\ xResult.rules[2].replacementText = <<"\n", "NUL">>

-----------------------------------------------------------------------------
(* hooks/usePermissionFlow.ts with the two components that use it           *)
(* (PermissionWindow inside OnboardingView, and PermissionStatus) and the   *)
(* view switch of App.  A render and the effects that follow it are one     *)
(* step.  The times of the interval and of the retry timers are kept as     *)
(* data; a timer that is pending fires at any later step.                   *)

DEFAULT_POLLING_INTERVAL == 1500
MAX_RETRY_ATTEMPTS == 3
RETRY_BASE_DELAY == 1000

MaxChecks == 2          \* most invokes of check_accessibility under way at once
MaxNotifications == 3   \* most calls of onStatusChange recorded

\* the values of state.error
NoError == [kind |-> "null", attempt |-> 0]
\* `Checking permissions... (attempt n/3)`
AttemptError(n) == [kind |-> "attempt", attempt |-> n]
\* 'Unable to check accessibility permissions. ...'
UnableError == [kind |-> "unable", attempt |-> 0]
\* 'Failed to open system settings. ...'
SettingsError == [kind |-> "settings", attempt |-> 0]

InitialFlowState ==
  [isGranted |-> FALSE, isLoading |-> TRUE, error |-> NoError, retryCount |-> 0]

RECURSIVE Pow2(_)
Pow2(n) == IF n <= 0 THEN 1 ELSE 2 * Pow2(n - 1)

\* the delay before the retry that follows failed attempt n
RetryDelay(n) == RETRY_BASE_DELAY * Pow2(n - 1)

\* the interval set by startPolling; seen is state.retryCount of the render
\* whose checkPermission the interval calls
Interval(seen) == [every |-> DEFAULT_POLLING_INTERVAL, seen |-> seen]

\* a component that notifies at every run of its effect
StatusAlways(prev, g) == TRUE

\* PermissionStatus: previousGrantedRef.current !== isGranted
StatusChanged(prev, g) == prev # <<g>>

\* the effect of PermissionStatus
StatusEffect(g) ==
  IF StatusChanged(previousGrantedRef, g)
  THEN /\ previousGrantedRef' = <<g>>
       /\ statusLog' = Append(statusLog, g)
  ELSE UNCHANGED <<previousGrantedRef, statusLog>>

\* The effects after the render that takes the state from old to new.
\* checkPermission depends on state.retryCount: when that has changed, the
\* mount effect is cleaned up (isMountedRef.current = false, stopPolling) and
\* run again (checkPermission(), which returns at once because nothing sets
\* isMountedRef back to true, and startPolling).  PermissionWindow calls
\* onPermissionGranted, which is onContinue, when isGranted has become true;
\* PermissionStatus runs its effect when isGranted has changed.
EffectsAfterRender(old, new) ==
  LET again == mounted /\ new.retryCount # old.retryCount IN
  /\ isMountedRef' = (isMountedRef /\ ~again)
  /\ pollingInterval' = IF again THEN <<Interval(new.retryCount)>> ELSE pollingInterval
  /\ continuing' = (continuing \/ (host = "PermissionWindow" /\ new.isGranted
                                     /\ ~old.isGranted))
  /\ IF host = "PermissionStatus" /\ new.isGranted # old.isGranted
     THEN StatusEffect(new.isGranted)
     ELSE UNCHANGED <<previousGrantedRef, statusLog>>

setState(new) ==
  /\ pfState' = new
  /\ EffectsAfterRender(pfState, new)

flowVars == <<pfState, isMountedRef, pollingInterval, continuing, previousGrantedRef,
              statusLog>>

\* checkPermission(isRetry) of the render that saw state.retryCount = seen,
\* up to its await
checkPermission(isRetry, seen) ==
  IF ~isMountedRef
  THEN UNCHANGED <<flowVars, pfChecks>>
  ELSE /\ setState([pfState EXCEPT !.isLoading = TRUE, !.error = NoError,
                                   !.retryCount = IF isRetry THEN @ + 1 ELSE 0])
       /\ pfChecks' = Append(pfChecks, [isRetry |-> isRetry, seen |-> seen])

\* the component is removed: the clean-up of the mount effect
Unmounted ==
  /\ mounted' = FALSE
  /\ isMountedRef' = FALSE
  /\ pollingInterval' = <<>>

PermInit ==
  /\ \/ host = "PermissionWindow" /\ view = "onboarding"
     \/ host = "PermissionStatus" /\ view = "none"
  /\ mounted = TRUE
  /\ osGranted \in BOOLEAN
  /\ checkFailing \in BOOLEAN
  /\ pfState = InitialFlowState
  /\ isMountedRef = TRUE
  \* the mount effect: checkPermission() and startPolling()
  /\ pfChecks = <<[isRetry |-> FALSE, seen |-> 0]>>
  /\ pollingInterval = <<Interval(0)>>
  /\ pfTimers = <<>>
  /\ continuing = FALSE
  /\ onStatusChange = 0
  \* the first run of the effect of PermissionStatus
  /\ previousGrantedRef = IF host = "PermissionStatus" THEN <<FALSE>> ELSE <<>>
  /\ statusLog = IF host = "PermissionStatus" THEN <<FALSE>> ELSE <<>>

\* the interval fires.  After isMountedRef has become false the call returns
\* at once and the step changes nothing.
PollTick ==
  /\ mounted
  /\ pollingInterval # <<>>
  /\ isMountedRef
  /\ Len(pfChecks) < MaxChecks
  /\ checkPermission(FALSE, pollingInterval[1].seen)
  /\ UNCHANGED <<view, host, mounted, osGranted, checkFailing, pfTimers, onStatusChange,
                 notPerm>>

\* check_accessibility answers and checkPermission goes on after its await
CheckResolves ==
  /\ ~checkFailing
  /\ \E i \in DOMAIN pfChecks :
       /\ pfChecks' = RemoveAt(pfChecks, i)
       /\ IF isMountedRef
          THEN setState([pfState EXCEPT !.isGranted = osGranted, !.isLoading = FALSE,
                                        !.retryCount = 0])
          ELSE UNCHANGED flowVars
  /\ UNCHANGED <<view, host, mounted, osGranted, checkFailing, pfTimers, onStatusChange,
                 notPerm>>

\* check_accessibility fails and the catch block of checkPermission runs
CheckRejects ==
  /\ checkFailing
  /\ \E i \in DOMAIN pfChecks :
       LET c == pfChecks[i]
           currentRetryCount == IF c.isRetry THEN c.seen + 1 ELSE 1
       IN
       /\ pfChecks' = RemoveAt(pfChecks, i)
       /\ IF ~isMountedRef
          THEN UNCHANGED <<flowVars, pfTimers>>
          ELSE IF currentRetryCount < MAX_RETRY_ATTEMPTS
          THEN /\ pfTimers' = Append(pfTimers, [delay |-> RetryDelay(currentRetryCount),
                                                seen |-> c.seen])
               /\ setState([pfState EXCEPT !.isLoading = TRUE,
                                           !.retryCount = currentRetryCount,
                                           !.error = AttemptError(currentRetryCount)])
          ELSE /\ pfTimers' = pfTimers
               /\ setState([pfState EXCEPT !.isLoading = FALSE,
                                           !.retryCount = currentRetryCount,
                                           !.error = UnableError])
  /\ UNCHANGED <<view, host, mounted, osGranted, checkFailing, onStatusChange, notPerm>>

\* a retry timer fires
RetryTimerFires ==
  /\ isMountedRef => Len(pfChecks) < MaxChecks
  /\ \E i \in DOMAIN pfTimers :
       /\ pfTimers' = RemoveAt(pfTimers, i)
       /\ IF isMountedRef
          THEN checkPermission(TRUE, pfTimers[i].seen)
          ELSE UNCHANGED <<flowVars, pfChecks>>
  /\ UNCHANGED <<view, host, mounted, osGranted, checkFailing, onStatusChange, notPerm>>

\* PermissionWindow: the button "Open System Settings" (disabled while
\* isLoading) or the Enter key (ignored while isLoading): handleOpenSettings
\* calls resetError and openSystemSettings; openUrl succeeds or fails
OpenSystemSettings ==
  /\ host = "PermissionWindow"
  /\ mounted
  /\ ~pfState.isLoading
  /\ \E opened \in BOOLEAN :
       setState([pfState EXCEPT !.retryCount = 0,
                                !.error = IF opened THEN NoError ELSE SettingsError])
  /\ UNCHANGED <<view, host, mounted, osGranted, checkFailing, pfChecks, pfTimers,
                 onStatusChange, notPerm>>

\* PermissionWindow shows the button "Try Again", which calls
\* retryPermissionCheck, in these states only
TryAgainShown ==
  /\ host = "PermissionWindow"
  /\ mounted
  /\ pfState.error.kind \in {"unable", "settings"}
  /\ pfState.retryCount >= MAX_RETRY_ATTEMPTS

\* App: onContinue has sent the rules and started the engine and ends with
\* setView("shortcuts"), which removes OnboardingView
ContinueCompletes ==
  /\ continuing
  /\ continuing' = FALSE
  /\ view' = "shortcuts"
  /\ IF mounted THEN Unmounted ELSE UNCHANGED <<mounted, isMountedRef, pollingInterval>>
  /\ UNCHANGED <<host, osGranted, checkFailing, pfState, pfChecks, pfTimers,
                 onStatusChange, previousGrantedRef, statusLog, notPerm>>

\* App: the listener of 'navigate-to-diagnostics'
NavigateToDiagnostics ==
  /\ host = "PermissionWindow"
  /\ view # "diagnostics"
  /\ view' = "diagnostics"
  /\ IF mounted THEN Unmounted ELSE UNCHANGED <<mounted, isMountedRef, pollingInterval>>
  /\ UNCHANGED <<host, osGranted, checkFailing, pfState, pfChecks, pfTimers, continuing,
                 onStatusChange, previousGrantedRef, statusLog, notPerm>>

\* AppShell: onNavigate
Navigate ==
  /\ view \in {"shortcuts", "diagnostics"}
  /\ \E v \in {"shortcuts", "diagnostics"} \ {view} : view' = v
  /\ UNCHANGED <<host, mounted, osGranted, checkFailing, pfState, isMountedRef,
                 pollingInterval, pfChecks, pfTimers, continuing, onStatusChange,
                 previousGrantedRef, statusLog, notPerm>>

\* the parent of PermissionStatus renders again and passes a new function as
\* onStatusChange: the effect runs again
ParentRenders ==
  /\ host = "PermissionStatus"
  /\ mounted
  /\ onStatusChange' = 1 - onStatusChange
  /\ StatusEffect(pfState.isGranted)
  /\ UNCHANGED <<view, host, mounted, osGranted, checkFailing, pfState, isMountedRef,
                 pollingInterval, pfChecks, pfTimers, continuing, notPerm>>

\* the parent of PermissionStatus removes it
ParentUnmounts ==
  /\ host = "PermissionStatus"
  /\ mounted
  /\ Unmounted
  /\ UNCHANGED <<view, host, osGranted, checkFailing, pfState, pfChecks, pfTimers,
                 continuing, onStatusChange, previousGrantedRef, statusLog, notPerm>>

\* the user grants or revokes the accessibility permission in the system
\* settings
AccessibilityChanges ==
  /\ Len(statusLog) < MaxNotifications
  /\ osGranted' = ~osGranted
  /\ UNCHANGED <<view, host, mounted, checkFailing, pfState, isMountedRef,
                 pollingInterval, pfChecks, pfTimers, continuing, onStatusChange,
                 previousGrantedRef, statusLog, notPerm>>

\* the command check_accessibility starts or stops failing
CheckFailureChanges ==
  /\ checkFailing' = ~checkFailing
  /\ UNCHANGED <<view, host, mounted, osGranted, pfState, isMountedRef,
                 pollingInterval, pfChecks, pfTimers, continuing, onStatusChange,
                 previousGrantedRef, statusLog, notPerm>>

PermIdle ==
  /\ view = "none"
  /\ host = "none"
  /\ mounted = FALSE
  /\ osGranted = TRUE
  /\ checkFailing = FALSE
  /\ pfState = InitialFlowState
  /\ isMountedRef = FALSE
  /\ pollingInterval = <<>>
  /\ pfChecks = <<>>
  /\ pfTimers = <<>>
  /\ continuing = FALSE
  /\ onStatusChange = 0
  /\ previousGrantedRef = <<>>
  /\ statusLog = <<>>

-----------------------------------------------------------------------------
(* C14: permission detection retries with exponential backoff and is        *)
(* bounded: while check_accessibility keeps failing and the component stays *)
(* mounted, the hook comes to its terminal state after MAX_RETRY_ATTEMPTS   *)
(* failed attempts: isLoading is false, retryCount is MAX_RETRY_ATTEMPTS    *)
(* and the error is 'Unable to check accessibility permissions'.            *)
TerminalError ==
  /\ ~pfState.isLoading
  /\ pfState.retryCount = MAX_RETRY_ATTEMPTS
  /\ pfState.error = UnableError

C14_RetriesEndInTerminalError ==
  (mounted /\ checkFailing) ~> (~mounted \/ ~checkFailing \/ TerminalError)

(* C15: while the component that uses usePermissionFlow is mounted the      *)
(* polling goes on, also after the permission has been granted, so that a   *)
(* revocation is detected: when isGranted is true, the permission has been  *)
(* revoked and check_accessibility answers, isGranted returns to false.     *)
C15_PollingDetectsRevocation ==
  (mounted /\ pfState.isGranted /\ ~osGranted /\ ~checkFailing)
    ~> (~mounted \/ ~pfState.isGranted \/ osGranted \/ checkFailing)

(* C16: a revocation of the accessibility permission while the app is       *)
(* running is detected and the app returns to the permission flow, also     *)
(* after onboarding has completed and a main view is shown.                 *)
C16_RevocationReturnsToPermissionFlow ==
  (view \in {"shortcuts", "diagnostics"} /\ ~osGranted)
    ~> (osGranted \/ view = "onboarding")

(* C19: PermissionStatus calls onStatusChange once with the initial status  *)
(* and afterwards only when isGranted differs from the value it reported    *)
(* last: the first notification carries the initial isGranted (false), no   *)
(* two consecutive notifications carry the same value, and the value        *)
(* reported last is the isGranted shown.                                    *)
C19_NotifiesOnChangeOnly ==
  host = "PermissionStatus" =>
    /\ statusLog # <<>>
    /\ statusLog[1] = InitialFlowState.isGranted
    /\ \A i \in 1..(Len(statusLog) - 1) : statusLog[i] # statusLog[i + 1]
    /\ statusLog[Len(statusLog)] = pfState.isGranted
    /\ previousGrantedRef = <<pfState.isGranted>>

\* three notifications (not granted, granted, revoked), the parent has
\* rendered again and polls have answered since the last of them
C19_Witness ==
  /\ host = "PermissionStatus"
  /\ statusLog = <<FALSE, TRUE, FALSE>>
  /\ onStatusChange = 1
  /\ ~pfState.isLoading
  /\ ~osGranted
  /\ pfChecks = <<>>

-----------------------------------------------------------------------------
(* state/tray-store.tsx: TrayStateProvider, next to the PauseToggleProvider *)
(* above.  The preferences showInDock and startMinimized are left out.  The *)
(* backend handles the tray commands in the order they were sent.           *)

MaxTotalInFlight == 2   \* most commands and responses of both stores under way

IconStates == {"active", "paused", "warning", "error"}

InitialTrayState == [isVisible |-> FALSE, expansionEnabled |-> TRUE, iconState |-> "active"]

TrayInFlight == Len(trayCalls) + Len(trayResponses)
TotalInFlight == InFlight + TrayInFlight

\* the requests of the main app while the tray store is there
MainTogglePause == TotalInFlight < MaxTotalInFlight /\ TogglePause
MainPauseExpansions == TotalInFlight < MaxTotalInFlight /\ PauseExpansions
MainResumeExpansions == TotalInFlight < MaxTotalInFlight /\ ResumeExpansions
MainSecureInputDetected == TotalInFlight < MaxTotalInFlight /\ SecureInputDetected

\* toggleExpansions, up to its await
ToggleExpansions ==
  /\ TotalInFlight < MaxTotalInFlight
  /\ trayCalls' = Append(trayCalls,
                         Call("toggle_expansions_from_tray", NoArgs, "toggleExpansions"))
  /\ UNCHANGED <<trayState, trayResponses, coordVars, pauseVars, notTray>>

\* setIconState(state) when the icon state is current: the state kept
IconStateAfter(prev, state) ==
  IF prev.iconState = state THEN prev ELSE [prev EXCEPT !.iconState = state]

\* setIconState(state), up to its await
SetIconState ==
  /\ TotalInFlight < MaxTotalInFlight
  /\ \E state \in IconStates :
       /\ trayState' = IconStateAfter(trayState, state)
       /\ trayCalls' = Append(trayCalls,
                              Call("update_tray_icon_state", [stateStr |-> state],
                                   "setIconState"))
  /\ UNCHANGED <<trayResponses, coordVars, pauseVars, notTray>>

\* The backend handles the oldest tray command.  is_tray_available answers
\* whether there is a tray.  toggle_expansions_from_tray is the user's toggle
\* of the Pause Coordinator: it answers whether expansions are enabled now
\* and the event pause-state-changed makes the pause store refresh.
\* update_tray_icon_state presents the icon; nothing runs after its await.
\* A command can fail, and then it changes nothing.
TrayBackendHandles ==
  /\ trayCalls # <<>>
  /\ trayCalls' = Tail(trayCalls)
  /\ LET c == Head(trayCalls) IN
     CASE c.cmd = "is_tray_available" ->
            /\ \E ok \in BOOLEAN, available \in BOOLEAN :
                 trayResponses' = Append(trayResponses,
                                         [from |-> c.from, ok |-> ok, value |-> available])
            /\ UNCHANGED <<coordVars, pauseVars>>
       [] c.cmd = "toggle_expansions_from_tray" ->
            \/ LET f == TogglePauseFlags(Flags) IN
               /\ pausedByUser' = f.user
               /\ lastUser' = ~lastUser
               /\ trayResponses' = Append(trayResponses,
                    [from |-> c.from, ok |-> TRUE,
                     value |-> ~EffectivePaused(f.user, f.secure, permissionGranted)])
               /\ calls' = Append(calls, RefreshCall)
               /\ UNCHANGED <<pausedBySecureInput, permissionGranted, secureInput,
                              responses, isPaused, pauseReason, canResume, lastSecure>>
            \/ /\ trayResponses' = Append(trayResponses,
                    [from |-> c.from, ok |-> FALSE, value |-> FALSE])
               /\ UNCHANGED <<coordVars, pauseVars>>
       [] c.cmd = "update_tray_icon_state" ->
            UNCHANGED <<trayResponses, coordVars, pauseVars>>
  /\ UNCHANGED <<trayState, notTray>>

\* a response arrives and the code after the await runs
TrayResponseArrives ==
  /\ \E i \in DOMAIN trayResponses :
       LET r == trayResponses[i] IN
       /\ trayResponses' = RemoveAt(trayResponses, i)
       /\ CASE r.from = "checkTrayAvailability" ->
                 trayState' = [trayState EXCEPT !.isVisible = r.ok /\ r.value]
            [] r.from = "toggleExpansions" ->
                 trayState' =
                   IF r.ok
                   THEN [trayState EXCEPT !.expansionEnabled = r.value,
                                          !.iconState = IF r.value THEN "active"
                                                        ELSE "paused"]
                   ELSE [trayState EXCEPT !.iconState = "error"]
  /\ UNCHANGED <<trayCalls, coordVars, pauseVars, notTray>>

TrayInit ==
  /\ trayState = InitialTrayState
  \* the mount effect: checkTrayAvailability()
  /\ trayCalls = <<Call("is_tray_available", NoArgs, "checkTrayAvailability")>>
  /\ trayResponses = <<>>

TrayIdle ==
  /\ trayState = InitialTrayState
  /\ trayCalls = <<>>
  /\ trayResponses = <<>>

\* no command and no response is under way
Settled ==
  /\ calls = <<>>
  /\ responses = <<>>
  /\ trayCalls = <<>>
  /\ trayResponses = <<>>

(* C17: the tray toggle and the pause toggle of the main app stay           *)
(* synchronized: when every command sent from either side has been handled  *)
(* and answered, expansionEnabled of the tray store is the negation of      *)
(* isPaused of the pause store, and the tray iconState is 'paused' exactly  *)
(* when isPaused, unless it is 'warning' or 'error'.                        *)
C17_TrayAndPauseToggleInSync ==
  Settled =>
    /\ trayState.expansionEnabled = ~isPaused
    /\ trayState.iconState \notin {"warning", "error"}
         => (trayState.iconState = "paused" <=> isPaused)

(* C18: tray icon updates happen only when the state changes: a call of     *)
(* setIconState with the icon state that is current neither changes the     *)
(* tray store nor sends an update_tray_icon_state command, so every step    *)
(* that sends the command changes iconState.                                *)
SendsIconUpdate ==
  /\ Len(trayCalls') = Len(trayCalls) + 1
  /\ trayCalls'[Len(trayCalls')].cmd = "update_tray_icon_state"

C18_IconUpdateOnlyOnChange ==
  [][SendsIconUpdate => trayState'.iconState # trayState.iconState]_vars

-----------------------------------------------------------------------------
(* state/pause-toggle-store.tsx: the listener of 'pause-state-changed'.     *)
(* The backend sends the event at times the store does not choose.          *)

\* listen('pause-state-changed', () => refreshPauseState())
PauseStateChanged ==
  /\ InFlight < MaxInFlight
  /\ calls' = Append(calls, RefreshCall)
  /\ UNCHANGED <<responses, isPaused, pauseReason, canResume, lastUser, lastSecure,
                 coordVars, notPause>>

\* no command of the pause store and no response to one is under way
PauseSettled ==
  /\ calls = <<>>
  /\ responses = <<>>

(* C21: the pause reason shown by the pause store is the one derived from   *)
(* the two flags: when togglePause, pauseExpansions, resumeExpansions or a  *)
(* secure-input event has completed and nothing is under way, pauseReason   *)
(* is mapPauseReason(pausedByUser, pausedBySecureInput) of the backend, and *)
(* isPaused is true exactly when pauseReason is not 'none'.                 *)
C21_ReasonDerivedFromFlags ==
  PauseSettled =>
    /\ pauseReason = mapPauseReason(pausedByUser, pausedBySecureInput)
    /\ isPaused <=> pauseReason # "none"

(* C22: frontend and backend pause state are reconciled: when events and    *)
(* user actions overlap and the responses arrive in any order, then with no *)
(* call under way the isPaused of the pause store is the effective isPaused *)
(* of the backend; a stale response does not remain as the final state.     *)
(* (canResume is left out: the backend's value is not determined.)          *)
C22_StoreReconciledWithBackend ==
  PauseSettled =>
    isPaused = EffectivePaused(pausedByUser, pausedBySecureInput, permissionGranted)

-----------------------------------------------------------------------------
(* C24: between mount and unmount of the component that uses                *)
(* usePermissionFlow isMountedRef.current is true, also after a change of   *)
(* retryCount has made a new checkPermission and run the mount effect       *)
(* again, so no poll, retry or state update is dropped as 'unmounted'; and  *)
(* after unmount it is false, so no state update happens.                   *)
C24_MountedRefFollowsMount == isMountedRef = mounted

-----------------------------------------------------------------------------
(* C25: in the import conflict dialog the default resolution of every       *)
(* conflict is 'skip': when the dialog is closed with "Apply", a            *)
(* conflicting imported rule for which the user made no choice (the dialog  *)
(* holds no entry the user has set for it) is not added to the store.       *)
NoChoiceMade(conflict) == ~MapHas(resolutions, conflict.importedRule.id)

C25_DefaultResolutionIsSkip ==
  [][(showConflictDialog /\ ~showConflictDialog')
       => \A i \in DOMAIN importConflicts :
            NoChoiceMade(importConflicts[i])
              => importConflicts[i].importedRule \notin (Range(rules') \ Range(rules))]_vars

-----------------------------------------------------------------------------
(* C29: edits preserve identity.  upsertRule with the id of an existing     *)
(* rule changes only that rule: it keeps id, createdAt and position, takes  *)
(* the given command and replacementText and a new updatedAt, and every     *)
(* other rule and the length of the list stay as they are; without an id    *)
(* exactly one rule with a fresh id is appended; deleteRule removes exactly *)
(* the rule with the given id.                                              *)
EditStep == clock' # clock /\ Selected # NoRule
CreateStep == clock' # clock /\ Selected = NoRule
DeleteStep == rules' # rules /\ clock' = clock /\ importCount' = importCount

\* the list after is the list before with position k replaced by r
ReplacedAt(before, after, k, r) ==
  /\ Len(after) = Len(before)
  /\ after[k] = r
  /\ \A j \in DOMAIN before : j # k => after[j] = before[j]

\* what a step of upsertRule or deleteRule does to the list
IdentityPreserved ==
  /\ EditStep =>
       \E k \in DOMAIN rules :
          /\ rules[k].id = Selected.id
          /\ ReplacedAt(rules, rules', k,
                        [rules[k] EXCEPT !.command = edCommand,
                                         !.replacementText = edText,
                                         !.updatedAt = clock])
  /\ CreateStep =>
       /\ Len(rules') = Len(rules) + 1
       /\ SubSeq(rules', 1, Len(rules)) = rules
       /\ \A j \in DOMAIN rules : rules[j].id # rules'[Len(rules')].id
  /\ DeleteStep =>
       \E k \in DOMAIN rules :
          /\ rules[k].id = Selected.id
          /\ rules' = RemoveAt(rules, k)

C29_EditsPreserveIdentity == [][IdentityPreserved]_vars

-----------------------------------------------------------------------------
(* lib/conflict-utils.ts: detectConflict and validateCommandWithConflicts.   *)
(* The arguments are those of validateRule, drawn in the initial state; the  *)
(* action ValidateWithConflicts runs both functions on them.                 *)

\* excludeId && rule.id === excludeId
Excluded(rule, excludeId) == excludeId # Undefined /\ rule.id = excludeId

\* existingRules.find(...) || null
detectConflict(command, existingRules, excludeId) ==
  IF command = <<>> THEN NoRule
  ELSE LET normalizedCommand == Trim(ToLowerCase(command))
           hits == {i \in DOMAIN existingRules :
                      /\ ~Excluded(existingRules[i], excludeId)
                      /\ Trim(ToLowerCase(existingRules[i].command)) = normalizedCommand}
       IN IF hits = {} THEN NoRule
          ELSE existingRules[CHOOSE i \in hits : \A j \in hits : i <= j]

hasValidFormat(command) ==
  /\ StartsWith(command, <<".">>)
  /\ Len(command) > 4
  /\ MatchesCommandPattern(command)
  /\ Len(command) <= 50
  /\ ~HasDoubleUnderscore(command)
  /\ ~HasEdgeUnderscore(command)

\* the suggestions of the result are those of generateCommandSuggestions and
\* are left out
validateCommandWithConflicts(command, existingRules, excludeId) ==
  LET conflictingRule == detectConflict(command, existingRules, excludeId)
      hasConflict == conflictingRule # NoRule
  IN [isValid |-> hasValidFormat(command) /\ ~hasConflict,
      hasConflict |-> hasConflict,
      conflictingRule |-> conflictingRule]

ValidateWithConflicts ==
  /\ vPhase = "input"
  /\ vErrors' = validateRule(vCommand, vText, vExisting, vSelfId)
  /\ vcResult' = validateCommandWithConflicts(vCommand, vExisting, vSelfId)
  /\ vPhase' = "done"
  /\ UNCHANGED <<vCommand, vText, vExisting, vSelfId, parseVars, storeVars, coordVars,
                 pauseVars, engineVars, suggestVars, exportVars, permVars, trayVars,
                 persistVars, startVars>>

CheckIdle == vcResult = NotRun

-----------------------------------------------------------------------------
(* C30: validateCommandWithConflicts applies the same command rules as       *)
(* validateRule: for every command, rule list and excluded id, isValid is    *)
(* true exactly when validateRule reports no error for the field "command"   *)
(* with the same rule list and selfId.                                       *)
C30_SameCommandRules ==
  vcResult # NotRun => (vcResult.isValid <=> ~HasErrorFor(vErrors, "command"))

-----------------------------------------------------------------------------
(* state/shortcuts-store.tsx: ShortcutsProvider.  The initial state is the   *)
(* one after the mount effects: the start-up load waits for the answer of    *)
(* exists, the persist effect has written the localStorage items and has     *)
(* called writeTextFile with the initial rule list.  localStorage item       *)
(* "dotdash.rules.v1" is read at mount only and is the choice of the         *)
(* initial rule list.                                                        *)

MaxChanges == 2    \* changes of the rule list by the views in one run

\* a rule list saved by an earlier run
DiskRules == <<Rule("e1", CmdGamma, <<"t">>, 0, 0)>>

\* lists handed to replaceAllRules
ReplacementLists == {f \in ImportLists : Len(f) = 1}

\* loadRulesFromDisk on a file that exists, its items used as rules
ReadRulesFile(file) ==
  LET r == loadRulesFromDisk("ok", ReadText(file)) IN
  IF r.t = "rules" THEN RulesResult([i \in DOMAIN r.rules |-> JsonRule(r.rules[i])]) ELSE r

\* the effect with the dependency [rules]: saveRulesToStorage, the call of
\* saveRulesToDisk, the item "shortcuts_rules"
PersistEffect(newRules) ==
  /\ pendingWrites' = Append(pendingWrites, serializeRules(newRules))
  /\ lsMirror' = newRules

\* the store variables of the views, which stay as they are
viewVars == <<importCount, selectedId, edKey, edCommand, edText, edErrors, edConflict,
              edDebounce, edTimers, settingsOpen, importConflicts, pendingImportRules,
              showConflictDialog, resolutions>>

notProvider == <<valVars, parseVars, viewVars, coordVars, pauseVars, engineVars, suggestVars,
                 exportVars, trayVars, checkVars>>

\* no view is shown that changes the rules
ViewsIdle ==
  /\ importCount = 0
  /\ selectedId = NoId
  /\ edKey = "new"
  /\ edCommand = <<>>
  /\ edText = <<>>
  /\ edErrors = <<>>
  /\ edConflict = NoConflict
  /\ edDebounce = FALSE
  /\ edTimers = <<>>
  /\ settingsOpen = FALSE
  /\ importConflicts = <<>>
  /\ pendingImportRules = <<>>
  /\ showConflictDialog = FALSE
  /\ resolutions = EmptyMap

ProviderInit ==
  /\ rules \in {DefaultRules, StoredRules}
  /\ nextId = 1
  /\ clock = 1
  /\ ViewsIdle
  /\ changeCount = 0
  /\ lsMirror = rules

PersistInit ==
  /\ ProviderInit
  /\ fileAtStart \in {NoFile, serializeRules(DiskRules), serializeRules(StoredRules)}
  /\ rulesFile = fileAtStart
  /\ loadStep = "exists"
  /\ pendingWrites = <<serializeRules(rules)>>

\* exists(RULES_PATH) answers
ExistsAnswers ==
  /\ loadStep = "exists"
  /\ loadStep' = IF rulesFile = NoFile THEN "done" ELSE "read"
  /\ UNCHANGED <<rules, nextId, clock, rulesFile, fileAtStart, pendingWrites, changeCount,
                 lsMirror, permVars, startVars, notProvider>>

\* readTextFile(RULES_PATH) answers: if (disk) setRules(disk)
ReadAnswers ==
  /\ loadStep = "read"
  /\ loadStep' = "done"
  /\ LET disk == ReadRulesFile(rulesFile) IN
     IF disk.t = "rules"
     THEN rules' = disk.rules /\ PersistEffect(disk.rules)
     ELSE UNCHANGED <<rules, pendingWrites, lsMirror>>
  /\ UNCHANGED <<nextId, clock, rulesFile, fileAtStart, changeCount, permVars, startVars,
                 notProvider>>

\* one of the writeTextFile calls under way writes the file
WriteLands ==
  /\ \E i \in DOMAIN pendingWrites :
       /\ rulesFile' = pendingWrites[i]
       /\ pendingWrites' = RemoveAt(pendingWrites, i)
  /\ UNCHANGED <<rules, nextId, clock, fileAtStart, loadStep, changeCount, lsMirror,
                 permVars, startVars, notProvider>>

\* upsertRule of the context value, called by a view
CallUpsertRule ==
  /\ changeCount < MaxChanges
  /\ changeCount' = changeCount + 1
  /\ \E id \in {Undefined} \cup {rules[i].id : i \in DOMAIN rules} :
       /\ id = Undefined => Len(rules) < MaxRules
       /\ rules' = upsertRule(rules, id, CmdGamma, <<"t">>, clock, NewIds[nextId])
       /\ nextId' = IF id = Undefined THEN nextId + 1 ELSE nextId
  /\ clock' = clock + 1
  /\ PersistEffect(rules')
  /\ UNCHANGED <<rulesFile, fileAtStart, loadStep, permVars, startVars, notProvider>>

\* deleteRule of the context value
CallDeleteRule ==
  /\ changeCount < MaxChanges
  /\ changeCount' = changeCount + 1
  /\ \E i \in DOMAIN rules : rules' = deleteRule(rules, rules[i].id)
  /\ PersistEffect(rules')
  /\ UNCHANGED <<nextId, clock, rulesFile, fileAtStart, loadStep, permVars, startVars,
                 notProvider>>

\* replaceAllRules of the context value
CallReplaceAllRules ==
  /\ changeCount < MaxChanges
  /\ changeCount' = changeCount + 1
  /\ \E all \in ReplacementLists : rules' = all
  /\ PersistEffect(rules')
  /\ UNCHANGED <<nextId, clock, rulesFile, fileAtStart, loadStep, permVars, startVars,
                 notProvider>>

\* the rule list a start would read from the file
FileRules == IF rulesFile = NoFile THEN Null ELSE ReadRulesFile(rulesFile)

-----------------------------------------------------------------------------
(* C26: start-up does not lose persisted rules: when a valid rules file      *)
(* exists on disk at start, then once start-up has settled (the load is      *)
(* done, no write is under way, no view has changed the rules) the store's   *)
(* rules and the file both equal the rules that were on disk before the      *)
(* start.                                                                    *)
StartupSettled == loadStep = "done" /\ pendingWrites = <<>> /\ changeCount = 0

C26_StartupKeepsDiskRules ==
  (fileAtStart # NoFile /\ StartupSettled)
    => /\ RulesResult(rules) = ReadRulesFile(fileAtStart)
       /\ FileRules = ReadRulesFile(fileAtStart)

-----------------------------------------------------------------------------
(* C27: rule persistence keeps the latest state: in whatever order the       *)
(* writes complete, once all pending writes have completed the file on disk  *)
(* holds the most recent rule list.                                          *)
C27_FileHoldsLatestRules ==
  (pendingWrites = <<>> /\ loadStep = "done") => FileRules = RulesResult(rules)

-----------------------------------------------------------------------------
(* App: onContinue of OnboardingView.  A run reads the item                  *)
(* "shortcuts_rules", invokes set_rules, set_engine_options and              *)
(* start_engine, each awaited inside one try block, and ends with            *)
(* setView("shortcuts").  The backend answers each command by resolving or   *)
(* rejecting its promise.                                                    *)

MaxRuns == 2       \* runs of onContinue in one run of the program

TestRule ==
  [command |-> <<".","t","e","s","t">>, replacementText |-> <<"T","E","S","T","E","D">>]

\* a string written by JSON.stringify and read back by JSON.parse
Reparsed(w) == JsonUnquote(JsonQuote(w))

\* JSON.parse of the item the persist effect wrote, then
\* Array.isArray(rules) && rules.length > 0 ? rules.map(...) : [the .test rule]
Payload(mirror) ==
  IF \E i \in DOMAIN mirror :
       ~Reparsed(mirror[i].command).ok \/ ~Reparsed(mirror[i].replacementText).ok
  THEN Thrown
  ELSE IF Len(mirror) > 0
  THEN RulesResult([i \in DOMAIN mirror |->
          [command |-> Reparsed(mirror[i].command).chars,
           replacementText |-> Reparsed(mirror[i].replacementText).chars]])
  ELSE RulesResult(<<TestRule>>)

\* a run that goes on to the next command whatever the answer was
AfterAnswerUnchecked(cmd, ok) ==
  CASE cmd = "set_rules" -> "set_engine_options"
    [] cmd = "set_engine_options" -> "start_engine"
    [] OTHER -> "setView"

\* what a run does when the promise of cmd has settled: a rejection leaves
\* the try block
AfterAnswer(cmd, ok) ==
  IF ~ok THEN "setView"
  ELSE CASE cmd = "set_rules" -> "set_engine_options"
         [] cmd = "set_engine_options" -> "start_engine"
         [] OTHER -> "setView"

Invocation(run, cmd, payload) ==
  [run |-> run, cmd |-> cmd, rules |-> payload, result |-> "pending"]

RunCount == Cardinality({k \in DOMAIN engLog : engLog[k].cmd = "set_rules"})

\* setView("shortcuts"): OnboardingView is removed
ShowShortcuts ==
  /\ view' = "shortcuts"
  /\ IF mounted THEN Unmounted ELSE UNCHANGED <<mounted, isMountedRef, pollingInterval>>

notStart == <<valVars, parseVars, storeVars, coordVars, pauseVars, engineVars, suggestVars,
              exportVars, trayVars, checkVars, persistVars>>

\* the effect of PermissionWindow has called onContinue: the run up to its
\* first await
ContinueStarts ==
  /\ continuing
  /\ RunCount < MaxRuns
  /\ continuing' = FALSE
  /\ LET payload == Payload(lsMirror) IN
     IF payload = Thrown
     THEN ShowShortcuts /\ UNCHANGED <<ocRuns, engLog>>
     ELSE /\ engLog' = Append(engLog, Invocation(RunCount + 1, "set_rules", payload.rules))
          /\ ocRuns' = Append(ocRuns, [run |-> RunCount + 1, awaits |-> "set_rules"])
          /\ UNCHANGED <<view, mounted, isMountedRef, pollingInterval>>
  /\ UNCHANGED <<host, osGranted, checkFailing, pfState, pfChecks, pfTimers, onStatusChange,
                 previousGrantedRef, statusLog, notStart>>

\* the promise a run awaits settles, and the run goes on to its next await
\* or to its end
InvokeAnswers ==
  /\ \E i \in DOMAIN ocRuns, ok \in BOOLEAN :
       LET r == ocRuns[i]
           k == CHOOSE j \in DOMAIN engLog :
                  engLog[j].run = r.run /\ engLog[j].result = "pending"
           settled == [engLog EXCEPT ![k].result = IF ok THEN "ok" ELSE "failed"]
           next == AfterAnswer(r.awaits, ok)
       IN IF next = "setView"
          THEN /\ engLog' = settled
               /\ ocRuns' = RemoveAt(ocRuns, i)
               /\ ShowShortcuts
          ELSE /\ engLog' = Append(settled, Invocation(r.run, next, <<>>))
               /\ ocRuns' = [ocRuns EXCEPT ![i].awaits = next]
               /\ UNCHANGED <<view, mounted, isMountedRef, pollingInterval>>
  /\ UNCHANGED <<host, osGranted, checkFailing, pfState, pfChecks, pfTimers, continuing,
                 onStatusChange, previousGrantedRef, statusLog, notStart>>

\* a view changes the rules: ShortcutsView and SettingsView are shown once
\* the view is not "onboarding"
ViewChangesRules ==
  /\ view = "shortcuts"
  /\ (CallUpsertRule \/ CallDeleteRule \/ CallReplaceAllRules)

\* the provider after its start-up has settled, with the rule list of an
\* earlier run
StartInit ==
  /\ rules \in {<<>>, DiskRules, StoredRules}
  /\ nextId = 1
  /\ clock = 1
  /\ ViewsIdle
  /\ changeCount = 0
  /\ lsMirror = rules
  /\ rulesFile = serializeRules(rules)
  /\ fileAtStart = rulesFile
  /\ loadStep = "done"
  /\ pendingWrites = <<>>
  /\ ocRuns = <<>>
  /\ engLog = <<>>
  /\ PermInit
  /\ host = "PermissionWindow"
  /\ ~checkFailing

-----------------------------------------------------------------------------
(* C28: when onboarding detects the permission as granted, onContinue        *)
(* invokes set_rules, then set_engine_options, then start_engine, each only  *)
(* after the previous one has succeeded; set_rules always carries at least   *)
(* one rule, the fallback ".test" when none is stored; and the view          *)
(* switches to "shortcuts" in every case, also when an invocation fails.     *)

\* the invocation of cmd by the run was made and has succeeded before entry k
SucceededBefore(k, cmd) ==
  \E j \in 1..(k - 1) :
     /\ engLog[j].run = engLog[k].run
     /\ engLog[j].cmd = cmd
     /\ engLog[j].result = "ok"

InvokedInOrder ==
  \A k \in DOMAIN engLog :
     /\ engLog[k].cmd = "set_engine_options" => SucceededBefore(k, "set_rules")
     /\ engLog[k].cmd = "start_engine"
          => SucceededBefore(k, "set_rules") /\ SucceededBefore(k, "set_engine_options")
     /\ engLog[k].cmd = "set_rules"
          => /\ Len(engLog[k].rules) >= 1
             /\ engLog[k].rules =
                  IF rules = <<>> THEN <<TestRule>>
                  ELSE [i \in DOMAIN rules |->
                          [command |-> rules[i].command,
                           replacementText |-> rules[i].replacementText]]

\* the step settles the last promise of a run: a rejection, or the success
\* of start_engine
RunEnds ==
  \E k \in DOMAIN engLog :
     /\ engLog[k].result = "pending"
     /\ \/ engLog'[k].result = "failed"
        \/ engLog'[k].result = "ok" /\ engLog[k].cmd = "start_engine"

C28_EngineStartedInOrder ==
  [][InvokedInOrder' /\ (RunEnds => view' = "shortcuts")]_vars

\* a run has started the engine, another has ended at a rejected command, and
\* the view is "shortcuts"
C28_Witness ==
  /\ view = "shortcuts"
  /\ ocRuns = <<>>
  /\ \E k \in DOMAIN engLog : engLog[k].cmd = "start_engine" /\ engLog[k].result = "ok"
  /\ \E k \in DOMAIN engLog : engLog[k].result = "failed"

-----------------------------------------------------------------------------
(* C23: the engine is handed a snapshot of the rules on each reload: after   *)
(* every change of the rule store made while the engine is running,          *)
(* set_rules is eventually invoked with the current rules.                   *)

EngineStarted ==
  \E k \in DOMAIN engLog : engLog[k].cmd = "start_engine" /\ engLog[k].result = "ok"

SentCurrentRules ==
  \E k \in DOMAIN engLog :
     /\ engLog[k].cmd = "set_rules"
     /\ engLog[k].rules = [i \in DOMAIN rules |->
                             [command |-> rules[i].command,
                              replacementText |-> rules[i].replacementText]]

C23_ReloadAfterChange == (EngineStarted /\ changeCount > 0) ~> SentCurrentRules

-----------------------------------------------------------------------------
(* Parts of the program that a specification leaves in their initial state *)

PersistIdle ==
  /\ rulesFile = NoFile
  /\ fileAtStart = NoFile
  /\ loadStep = "idle"
  /\ pendingWrites = <<>>
  /\ changeCount = 0
  /\ lsMirror = <<>>

StartIdle ==
  /\ ocRuns = <<>>
  /\ engLog = <<>>

AppIdle == CheckIdle /\ PersistIdle /\ StartIdle

-----------------------------------------------------------------------------
(* Specifications *)

NextValidate == Validate

NextParse ==
  \/ LoadRulesFromStorage
  \/ LoadRulesFromDisk
  \/ ParseRulesFile
  \/ ParseRulesFileWithConflicts

NextStore ==
  \/ TypeCommand
  \/ TypeText
  \/ DebounceFires
  \/ ConflictTimerFires
  \/ HandleSave
  \/ SelectRule
  \/ NewRule
  \/ EditConflicting
  \/ DeleteRule
  \/ ImportRules

NextImport ==
  \/ OpenSettings
  \/ CloseSettings
  \/ HandleImport
  \/ ChooseAction
  \/ TypeNewCommand
  \/ Resolve
  \/ CancelImport
  \/ SelectRule
  \/ NewRule
  \/ DeleteRule

NextPause ==
  \/ TogglePause
  \/ PauseExpansions
  \/ ResumeExpansions
  \/ SecureInputDetected
  \/ BackendHandles
  \/ ResponseArrives

NextSuggest ==
  \/ GenerateCommandSuggestions
  \/ DetectImportConflicts

NextEngine ==
  \/ PhysicalEvent
  \/ SyntheticEvent
  \/ LowerGuard
  \/ SetUserPause
  \/ SecureInputChanges
  \/ PermissionChanges

LaterIdle == SuggestIdle /\ ExportIdle /\ PermIdle /\ TrayIdle /\ AppIdle

InitValidateCommand ==
  ValInitCommand /\ LaterIdle /\ ParseIdle /\ StoreIdle /\ CoordIdle /\ PauseIdle /\ EngineIdle
InitValidateText ==
  ValInitText /\ LaterIdle /\ ParseIdle /\ StoreIdle /\ CoordIdle /\ PauseIdle /\ EngineIdle
InitParse == ParseInit /\ LaterIdle /\ ValIdle /\ StoreIdle /\ CoordIdle /\ PauseIdle /\ EngineIdle
InitStore == StoreInit /\ LaterIdle /\ ValIdle /\ ParseIdle /\ CoordIdle /\ PauseIdle /\ EngineIdle
InitPause == PauseInit /\ LaterIdle /\ ValIdle /\ ParseIdle /\ StoreIdle /\ EngineIdle
InitEngine == EngineInit /\ LaterIdle /\ ValIdle /\ ParseIdle /\ StoreIdle /\ PauseIdle

SpecValidateCommand == InitValidateCommand /\ [][NextValidate]_vars
SpecValidateText == InitValidateText /\ [][NextValidate]_vars
SpecParse == InitParse /\ [][NextParse]_vars
SpecStore == InitStore /\ [][NextStore]_vars
SpecImport == InitStore /\ [][NextImport]_vars
SpecPause == InitPause /\ [][NextPause]_vars
\* the backend handles every command it has received
SpecPauseFair == SpecPause /\ WF_vars(BackendHandles)
SpecEngine == InitEngine /\ [][NextEngine]_vars
InitSuggest ==
  SuggestInit /\ AppIdle /\ ExportIdle /\ PermIdle /\ TrayIdle /\ ValIdle /\ ParseIdle /\ StoreIdle /\ CoordIdle /\ PauseIdle
    /\ EngineIdle
SpecSuggest == InitSuggest /\ [][NextSuggest]_vars
NextExport == ExportThenParse
InitExport ==
  ExportInit /\ AppIdle /\ SuggestIdle /\ PermIdle /\ TrayIdle /\ ValIdle /\ ParseIdle /\ StoreIdle /\ CoordIdle /\ PauseIdle
    /\ EngineIdle
SpecExport == InitExport /\ [][NextExport]_vars

NextPermission ==
  \/ PollTick
  \/ CheckResolves
  \/ CheckRejects
  \/ RetryTimerFires
  \/ OpenSystemSettings
  \/ ContinueCompletes
  \/ NavigateToDiagnostics
  \/ Navigate
  \/ ParentRenders
  \/ ParentUnmounts
  \/ AccessibilityChanges
  \/ CheckFailureChanges
InitPermission ==
  PermInit /\ AppIdle /\ TrayIdle /\ SuggestIdle /\ ExportIdle /\ ValIdle /\ ParseIdle /\ StoreIdle
    /\ CoordIdle /\ PauseIdle /\ EngineIdle
SpecPermission == InitPermission /\ [][NextPermission]_vars
\* the interval and the timers fire, check_accessibility answers, and
\* onContinue comes to its end
SpecPermissionFair ==
  /\ SpecPermission
  /\ WF_vars(PollTick)
  /\ WF_vars(CheckResolves)
  /\ WF_vars(CheckRejects)
  /\ WF_vars(RetryTimerFires)
  /\ WF_vars(ContinueCompletes)


NextTray ==
  \/ MainTogglePause
  \/ MainPauseExpansions
  \/ MainResumeExpansions
  \/ MainSecureInputDetected
  \/ BackendHandles
  \/ ResponseArrives
  \/ ToggleExpansions
  \/ SetIconState
  \/ TrayBackendHandles
  \/ TrayResponseArrives
InitTray ==
  PauseInit /\ TrayInit /\ AppIdle /\ PermIdle /\ SuggestIdle /\ ExportIdle /\ ValIdle /\ ParseIdle
    /\ StoreIdle /\ EngineIdle
SpecTray == InitTray /\ [][NextTray]_vars


NextPauseEvents ==
  \/ TogglePause
  \/ PauseExpansions
  \/ ResumeExpansions
  \/ SecureInputDetected
  \/ PauseStateChanged
  \/ BackendHandles
  \/ ResponseArrives
SpecPauseEvents == InitPause /\ [][NextPauseEvents]_vars

\* the rule list of ShortcutsProvider and the rules file
NextPersist ==
  \/ ExistsAnswers
  \/ ReadAnswers
  \/ WriteLands
  \/ CallUpsertRule
  \/ CallDeleteRule
  \/ CallReplaceAllRules
InitPersist ==
  PersistInit /\ CheckIdle /\ StartIdle /\ SuggestIdle /\ ExportIdle /\ PermIdle /\ TrayIdle
    /\ ValIdle /\ ParseIdle /\ CoordIdle /\ PauseIdle /\ EngineIdle
SpecPersist == InitPersist /\ [][NextPersist]_vars

\* onboarding: the permission flow of PermissionWindow and onContinue
NextOnboarding ==
  \/ PollTick
  \/ CheckResolves
  \/ AccessibilityChanges
  \/ NavigateToDiagnostics
  \/ Navigate
  \/ ContinueStarts
  \/ InvokeAnswers
InitStart ==
  StartInit /\ CheckIdle /\ SuggestIdle /\ ExportIdle /\ TrayIdle /\ ValIdle /\ ParseIdle
    /\ CoordIdle /\ PauseIdle /\ EngineIdle
SpecOnboarding == InitStart /\ [][NextOnboarding]_vars

\* onboarding followed by changes of the rules in the views
NextReload ==
  \/ CheckResolves
  \/ ContinueStarts
  \/ InvokeAnswers
  \/ ViewChangesRules
  \/ WriteLands
SpecReload == InitStart /\ [][NextReload]_vars
SpecReloadFair ==
  /\ SpecReload
  /\ WF_vars(CheckResolves)
  /\ WF_vars(ContinueStarts)
  /\ WF_vars(InvokeAnswers)
  /\ WF_vars(WriteLands)

\* validateRule and validateCommandWithConflicts on the same arguments
NextValidateConflicts == ValidateWithConflicts
SpecValidateConflicts == InitValidateCommand /\ [][NextValidateConflicts]_vars

=============================================================================
